---------------------------- MODULE Spec2Model ----------------------------
(***************************************************************************)
(* A model of smart-test-generator: the structural extractor over a        *)
(* syntax tree, the two heuristic classifiers, the three test skeleton     *)
(* generators and the orchestrator that sequences them.                    *)
(*                                                                         *)
(* Conventions.  A Python str is a TLA+ string; None and a missing key are *)
(* both the empty string "" wherever the code reads them through           *)
(* dict.get(key, '') or a truth test.  A syntax tree is a sequence of node *)
(* records; node 1 is the Module, every other node names its parent, which *)
(* has a smaller index, and the children of a node are ordered by index.   *)
(***************************************************************************)
EXTENDS Integers, Sequences, FiniteSets, TLC

\* Bounds of the model.
MaxNodes == 4       \* nodes of a drawn syntax tree, the Module included
MaxOperands == 3    \* operands of a drawn boolean operation
MaxFiles == 2       \* files in a batch handed to analyze_code
MaxFuncs == 2       \* function records handed to a classifier directly
MaxClasses == 1     \* class records handed to a classifier directly
MaxPartial == 1     \* lines of a file that reach the disk before a write fails
MaxArgs == 2        \* arguments of a drawn function of several arguments
MaxNames == 3       \* functions in a drawn list of functions without arguments
MaxGenClasses == 3  \* class records handed to a generator directly
MaxImports == 2     \* import records handed to a generator directly

-----------------------------------------------------------------------------
(* Strings *)

\* Python: kw in s
Contains(s, kw) ==
    \E i \in 1..(Len(s) - Len(kw) + 1) : SubSeq(s, i, i + Len(kw) - 1) = kw

\* Python: s.startswith(p)
StartsWith(s, p) == Len(s) >= Len(p) /\ SubSeq(s, 1, Len(p)) = p

UpperChars == "ABCDEFGHIJKLMNOPQRSTUVWXYZ"
LowerChars == "abcdefghijklmnopqrstuvwxyz"

LowerChar(c) ==
    IF \E k \in 1..Len(UpperChars) : SubSeq(UpperChars, k, k) = c
    THEN LET k == CHOOSE k \in 1..Len(UpperChars) : SubSeq(UpperChars, k, k) = c
         IN  SubSeq(LowerChars, k, k)
    ELSE c

\* Python: s.lower()
RECURSIVE Lower(_)
Lower(s) ==
    IF Len(s) = 0 THEN s
    ELSE LowerChar(SubSeq(s, 1, 1)) \o Lower(SubSeq(s, 2, Len(s)))

\* A faulty variant of AnyIn: every keyword has to occur.
AllIn(kws, s) == \A k \in kws : Contains(s, k)

\* Python: any(keyword in s for keyword in kws)
AnyIn(kws, s) == \E k \in kws : Contains(s, k)

\* Python: s.split('.')[0]
RECURSIVE FirstDotted(_)
FirstDotted(s) ==
    IF Len(s) = 0 \/ SubSeq(s, 1, 1) = "." THEN ""
    ELSE SubSeq(s, 1, 1) \o FirstDotted(SubSeq(s, 2, Len(s)))

\* Sequence helpers
RECURSIVE Flatten(_)
Flatten(ss) == IF ss = <<>> THEN <<>> ELSE Head(ss) \o Flatten(Tail(ss))

Range(s) == {s[i] : i \in 1..Len(s)}

RECURSIVE SeqSum(_)
SeqSum(s) == IF s = <<>> THEN 0 ELSE Head(s) + SeqSum(Tail(s))

\* The elements of s that satisfy Keep, in order.
RECURSIVE SelectSeqBy(_, _)
SelectSeqBy(s, keep) ==
    IF s = <<>> THEN <<>>
    ELSE (IF Head(s) \in keep THEN <<Head(s)>> ELSE <<>>) \o SelectSeqBy(Tail(s), keep)

-----------------------------------------------------------------------------
(* The syntax tree (Python's ast) *)

BlockKinds == {"Module", "FunctionDef", "AsyncFunctionDef", "ClassDef", "If",
               "While", "For", "Try", "ExceptHandler"}

\* A node with the defaults of every field.  args: <<[name, annotation]>>;
\* names: the aliases of an import, <<[name, asname]>>; nvalues: the number of
\* operands of a BoolOp (an operand that is a plain name or constant is not a
\* node of the model; an operand that is itself a BoolOp is a child).
Node(kind, parent, name) ==
    [kind |-> kind, parent |-> parent, name |-> name, nvalues |-> 0,
     args |-> <<>>, returns |-> "", decorators |-> <<>>, docstring |-> "",
     vararg |-> FALSE, kwarg |-> FALSE, ndefaults |-> 0,
     module |-> "", names |-> <<>>, annotation |-> ""]

\* ast.iter_child_nodes(node), in order
Children(t, n) ==
    SelectSeqBy([i \in 1..Len(t) |-> i], {i \in 1..Len(t) : t[i].parent = n})

\* ast.walk(node): breadth-first, from a deque seeded with the node
RECURSIVE WalkFrom(_, _, _)
WalkFrom(t, todo, out) ==
    IF todo = <<>> THEN out
    ELSE WalkFrom(t, Tail(todo) \o Children(t, Head(todo)), Append(out, Head(todo)))

Walk(t, n) == WalkFrom(t, <<n>>, <<>>)

\* A faulty variant of ComplexityOf: a boolean operation counts its operands.
ComplexityOfOperands(node) ==
    IF node.kind \in {"If", "While", "For", "ExceptHandler"} THEN 1
    ELSE IF node.kind = "BoolOp" THEN node.nvalues
    ELSE 0

\* What one walked node adds to the complexity.
ComplexityOf(node) ==
    IF node.kind \in {"If", "While", "For", "ExceptHandler"} THEN 1
    ELSE IF node.kind = "BoolOp" THEN node.nvalues - 1
    ELSE 0

\* A faulty variant of BaseComplexity: no base path.
BaseComplexityZero == 1 - 1

\* complexity = 1  # Base complexity
BaseComplexity == 1

\* ASTAnalyzer._calculate_complexity
CalculateComplexity(t, n) ==
    LET w == Walk(t, n)
    IN  BaseComplexity + SeqSum([k \in 1..Len(w) |-> ComplexityOf(t[w[k]])])

\* ASTAnalyzer._extract_function_info
ExtractFunctionInfo(t, n) ==
    [name |-> t[n].name,
     args |-> t[n].args,
     return_type |-> t[n].returns,
     decorators |-> t[n].decorators,
     docstring |-> t[n].docstring,
     line_number |-> n,
     complexity |-> CalculateComplexity(t, n),
     is_async |-> t[n].kind = "AsyncFunctionDef",
     has_varargs |-> t[n].vararg,
     has_kwargs |-> t[n].kwarg,
     has_defaults |-> t[n].ndefaults > 0]

IsFunctionNode(t, n) == t[n].kind \in {"FunctionDef", "AsyncFunctionDef"}

\* ASTAnalyzer.extract_functions
ExtractFunctions(t) ==
    LET w == Walk(t, 1)
        hits == SelectSeqBy(w, {n \in 1..Len(t) : IsFunctionNode(t, n)})
    IN  [k \in 1..Len(hits) |-> ExtractFunctionInfo(t, hits[k])]

\* ASTAnalyzer._extract_class_info
ExtractClassInfo(t, n) ==
    LET body == Children(t, n)
        ms == SelectSeqBy(body, {i \in 1..Len(t) : IsFunctionNode(t, i)})
        as == SelectSeqBy(body, {i \in 1..Len(t) : t[i].kind = "AnnAssign" /\ t[i].name # ""})
    IN  [name |-> t[n].name,
         bases |-> <<>>,
         methods |-> [k \in 1..Len(ms) |-> ExtractFunctionInfo(t, ms[k])],
         attributes |-> [k \in 1..Len(as) |->
                            [name |-> t[as[k]].name, annotation |-> t[as[k]].annotation]],
         docstring |-> t[n].docstring,
         line_number |-> n]

\* ASTAnalyzer.extract_classes
ExtractClasses(t) ==
    LET w == Walk(t, 1)
        hits == SelectSeqBy(w, {n \in 1..Len(t) : t[n].kind = "ClassDef"})
    IN  [k \in 1..Len(hits) |-> ExtractClassInfo(t, hits[k])]

\* The records of one Import / ImportFrom node
ImportRecords(node) ==
    IF node.kind = "Import"
    THEN [k \in 1..Len(node.names) |->
            [module |-> node.names[k].name,
             name |-> IF node.names[k].asname # "" THEN node.names[k].asname
                      ELSE node.names[k].name,
             type |-> "import"]]
    ELSE [k \in 1..Len(node.names) |->
            [module |-> IF node.module # ""
                        THEN node.module \o "." \o node.names[k].name
                        ELSE node.names[k].name,
             name |-> IF node.names[k].asname # "" THEN node.names[k].asname
                      ELSE node.names[k].name,
             type |-> "from_import"]]

\* ASTAnalyzer.extract_imports
ExtractImports(t) ==
    LET w == Walk(t, 1)
        hits == SelectSeqBy(w, {n \in 1..Len(t) : t[n].kind \in {"Import", "ImportFrom"}})
    IN  Flatten([k \in 1..Len(hits) |-> ImportRecords(t[hits[k]])])

-----------------------------------------------------------------------------
(* The heuristic classifiers *)

\* The findings f"{subject}: {m}" for m in msgs, when cond holds.
Findings(cond, subject, msgs) ==
    IF cond THEN [k \in 1..Len(msgs) |-> subject \o ": " \o msgs[k]] ELSE <<>>

\* func.get('body', ''): the extractor's records carry no body.
BodyOf(func) == IF "body" \in DOMAIN func THEN func.body ELSE ""

\* The per-argument findings of the edge-case detector
ArgEdgeCases(func_name, arg) ==
      Findings(arg.annotation \in {"int", "float", "number"}, func_name,
               <<arg.name \o " = 0", arg.name \o " = negative", arg.name \o " = very large">>)
   \o Findings(arg.annotation \in {"str", "string"}, func_name,
               <<arg.name \o " = empty string", arg.name \o " = very long string",
                 arg.name \o " = special characters">>)
   \o Findings(arg.annotation \in {"list", "set", "dict", "List", "Set", "Dict", "Collection"},
               func_name,
               <<arg.name \o " = empty collection", arg.name \o " = very large collection">>)

\* A faulty variant of HighComplexity: the threshold itself counts as high.
HighComplexityInclusive == 10 - 1

\* if complexity > 10
HighComplexity == 10

\* EdgeCaseDetector._detect_function_edge_cases
DetectFunctionEdgeCases(func) ==
    LET n == func.name
        l == Lower(func.name)
    IN    Findings(AnyIn({"divide", "div", "/"}, l), n,
                   <<"division by zero", "integer overflow in division">>)
       \o Findings(AnyIn({"sort", "order", "unique"}, l), n,
                   <<"empty collection", "single element collection",
                     "collection with duplicates">>)
       \o Findings(AnyIn({"find", "search", "index", "get"}, l), n,
                   <<"item not found", "empty collection">>)
       \o Findings(AnyIn({"parse", "convert", "encode", "decode"}, l), n,
                   <<"empty string input", "invalid input format", "very long input">>)
       \o Findings(AnyIn({"read", "load", "fetch", "get"}, l), n,
                   <<"empty file/data", "file not found", "permission denied">>)
       \o Findings(AnyIn({"write", "save", "store"}, l), n,
                   <<"write to read-only location", "disk full">>)
       \o Flatten([k \in 1..Len(func.args) |-> ArgEdgeCases(n, func.args[k])])
       \o Findings(func.return_type \in {"int", "float"}, n,
                   <<"return zero", "return negative value">>)
       \o Findings(func.complexity > HighComplexity, n,
                   <<"high complexity (" \o ToString(func.complexity) \o ") - test thoroughly">>)
       \o Findings(func.has_varargs, n,
                   <<"zero arguments passed to *args", "many arguments passed to *args">>)
       \o Findings(func.has_kwargs, n, <<"empty kwargs", "unexpected kwargs keys">>)
       \o Findings(func.is_async, n, <<"async function - test concurrent calls">>)

\* The per-method findings of the edge-case detector
MethodEdgeCases(class_name, method) ==
      Findings(method.name = "__init__", class_name,
               <<"create instance with no arguments", "create instance with extra arguments">>)
   \o Findings(StartsWith(method.name, "__get"), class_name,
               <<"access non-existent attribute">>)
   \o Findings(method.name \in {"__str__", "__repr__"}, class_name,
               <<"string representation of edge case instances">>)

\* EdgeCaseDetector._detect_class_edge_cases
DetectClassEdgeCases(cls) ==
      Findings(TRUE, cls.name,
               <<"initialization with invalid parameters", "initialization with None">>)
   \o Flatten([k \in 1..Len(cls.methods) |-> MethodEdgeCases(cls.name, cls.methods[k])])

\* The loop that removes duplicates while preserving order
RECURSIVE DedupFrom(_, _, _)
DedupFrom(cases, seen, unique) ==
    IF cases = <<>> THEN unique
    ELSE IF Head(cases) \in seen
         THEN DedupFrom(Tail(cases), seen, unique)
         ELSE DedupFrom(Tail(cases), seen \cup {Head(cases)}, Append(unique, Head(cases)))

\* A faulty variant of Dedup: the last occurrence of a finding is the one kept.
RECURSIVE DedupKeepLast(_)
DedupKeepLast(cases) ==
    IF cases = <<>> THEN <<>>
    ELSE IF Head(cases) \in Range(Tail(cases))
         THEN DedupKeepLast(Tail(cases))
         ELSE <<Head(cases)>> \o DedupKeepLast(Tail(cases))

\* seen = set(); unique = []; for case in cases: ...
Dedup(cases) == DedupFrom(cases, {}, <<>>)

\* The findings of EdgeCaseDetector.detect before duplicates are removed
EdgeCasesCollected(functions, classes) ==
      Flatten([k \in 1..Len(functions) |-> DetectFunctionEdgeCases(functions[k])])
   \o Flatten([k \in 1..Len(classes) |-> DetectClassEdgeCases(classes[k])])

\* EdgeCaseDetector.detect
EdgeDetect(functions, classes) == Dedup(EdgeCasesCollected(functions, classes))

\* The per-argument findings of the failure-mode detector
ArgFailureModes(func_name, arg) ==
      Findings(arg.annotation \in {"list", "List", "dict", "Dict", "set", "Set"}, func_name,
               <<"may not handle empty " \o arg.name, "may not handle None " \o arg.name>>)
   \o Findings(arg.annotation \in {"int", "float", "str", "bool"}, func_name,
               <<"may not validate " \o arg.name \o " type">>)

\* FailureModeDetector._detect_function_failure_modes
DetectFunctionFailureModes(func) ==
    LET n == func.name
        l == Lower(func.name)
        r == func.return_type
    IN    Findings(AnyIn({"get", "find", "search"}, l), n,
                   <<"may return None without indication",
                     "may raise exception when not found">>)
       \o Findings(AnyIn({"parse", "load", "read"}, l), n,
                   <<"may raise parsing error on invalid input",
                     "may not handle malformed data">>)
       \o Findings(AnyIn({"delete", "remove"}, l), n,
                   <<"may fail silently on non-existent item",
                     "may raise exception when item not found">>)
       \o Findings(AnyIn({"validate", "check"}, l), n, <<"may have incomplete validation">>)
       \o Flatten([k \in 1..Len(func.args) |-> ArgFailureModes(n, func.args[k])])
       \o Findings(r # "" /\ (Contains(r, "Optional") \/ Contains(r, "None")), n,
                   <<"returns Optional - caller may not check for None">>)
       \o Findings(r # "" /\ AnyIn({"List", "Dict", "Set", "Tuple"}, r), n,
                   <<"may return empty collection">>)
       \o Findings(func.is_async, n,
                   <<"async function - potential race condition",
                     "async function - missing await points">>)
       \o Findings(Contains(l, "recursive") \/ Contains(Lower(BodyOf(func)), "recursion"), n,
                   <<"recursive function - stack overflow risk",
                     "recursive function - missing base case risk">>)
       \o Findings(func.complexity > 15, n,
                   <<"high complexity (" \o ToString(func.complexity)
                     \o ") - hard to test all paths">>)
       \o Findings(func.has_varargs, n, <<"*args - may not validate number of arguments">>)
       \o Findings(func.has_kwargs, n, <<"**kwargs - may not validate unexpected keys">>)

\* The per-method findings of the failure-mode detector
MethodFailureModes(class_name, method) ==
    LET m == method.name
    IN    Findings(m = "__init__", class_name,
                   <<"may not handle invalid initialization state",
                     "may not handle missing required fields">>)
       \o Findings(StartsWith(m, "__get"), class_name,
                   <<"may raise AttributeError on missing attributes">>)
       \o Findings(StartsWith(m, "__set"), class_name, <<"may not validate assigned values">>)
       \o Findings(m = "__enter__" \/ m = "__exit__", class_name,
                   <<"context manager - may not handle exceptions properly">>)
       \o Findings(m \in {"__str__", "__repr__"}, class_name,
                   <<"may raise exception on malformed instance">>)
       \o Findings(StartsWith(m, "__eq__") \/ StartsWith(m, "__cmp"), class_name,
                   <<"comparison may not handle None or different types">>)

\* FailureModeDetector._detect_class_failure_modes
DetectClassFailureModes(cls) ==
      Findings(TRUE, cls.name, <<"__init__ may not validate constructor arguments">>)
   \o Flatten([k \in 1..Len(cls.methods) |-> MethodFailureModes(cls.name, cls.methods[k])])

\* The findings of FailureModeDetector.detect before duplicates are removed
FailureModesCollected(functions, classes) ==
      Flatten([k \in 1..Len(functions) |-> DetectFunctionFailureModes(functions[k])])
   \o Flatten([k \in 1..Len(classes) |-> DetectClassFailureModes(classes[k])])

\* FailureModeDetector.detect
FailureDetect(functions, classes) == Dedup(FailureModesCollected(functions, classes))

-----------------------------------------------------------------------------
(* The unit test generator *)

\* Python: sep.join(parts)
RECURSIVE Join(_, _)
Join(parts, sep) ==
    IF parts = <<>> THEN ""
    ELSE IF Len(parts) = 1 THEN Head(parts)
    ELSE Head(parts) \o sep \o Join(Tail(parts), sep)

\* A faulty variant of IsPrivateName: every leading underscore makes a name private.
IsUnderscoreName(name) == StartsWith(name, "_")

\* name.startswith('_') and not name.startswith('__')
IsPrivateName(name) == StartsWith(name, "_") /\ ~StartsWith(name, "__")

\* record.get(key) of a boolean key the record may lack
FlagOf(rec, key) == key \in DOMAIN rec /\ rec[key]

\* type_mapping.get(type_hint, 'None') in UnitTestGenerator._get_test_value_for_type
UnitTypeMapping(type_hint) ==
    CASE type_hint = "int" -> "1"
      [] type_hint = "float" -> "1.0"
      [] type_hint = "str" -> "\"test\""
      [] type_hint = "bool" -> "True"
      [] type_hint \in {"list", "List"} -> "[]"
      [] type_hint \in {"dict", "Dict"} -> "{}"
      [] type_hint \in {"set", "Set"} -> "set()"
      [] type_hint \in {"tuple", "Tuple"} -> "()"
      [] type_hint = "bytes" -> "b\"\""
      [] type_hint = "bytearray" -> "bytearray()"
      [] type_hint = "MemoryView" -> "memoryview(b\"\")"
      [] type_hint \in {"None", "Optional", "Any"} -> "None"
      [] OTHER -> "None"

\* UnitTestGenerator._get_test_value_for_type
GetTestValueForType(type_hint) ==
    IF Contains(type_hint, "Optional[") THEN "None"
    ELSE IF Contains(type_hint, "List[") THEN "[]"
    ELSE IF Contains(type_hint, "Dict[") THEN "{}"
    ELSE UnitTypeMapping(type_hint)

\* A faulty variant of DefaultInputs: every argument is passed as None.
DefaultInputsAllNone(args) == [j \in 1..Len(args) |-> "None"]

\* The call arguments with every argument at its default literal
DefaultInputs(args) == [j \in 1..Len(args) |-> GetTestValueForType(args[j].annotation)]

\* The empty value substituted for a collection or string argument
EmptyValueFor(arg_type) ==
    IF arg_type \in {"list", "List"} THEN "[]"
    ELSE IF arg_type = "str" THEN "\"\""
    ELSE IF arg_type \in {"dict", "Dict"} THEN "{}"
    ELSE IF arg_type \in {"set", "Set"} THEN "set()"
    ELSE GetTestValueForType(arg_type)

\* The tests UnitTestGenerator._generate_edge_case_tests emits for argument i
ArgEdgeCaseTests(func_name, args, i) ==
    LET arg_type == args[i].annotation
        arg_name == args[i].name
        none_in == [j \in 1..Len(args) |-> IF j = i THEN "None" ELSE DefaultInputs(args)[j]]
        empty_in == [j \in 1..Len(args) |->
                        IF j = i THEN EmptyValueFor(arg_type) ELSE DefaultInputs(args)[j]]
    IN    << "def test_" \o func_name \o "_" \o arg_name \o "_none():",
             "    # Test with None value",
             "    # result = " \o func_name \o "(" \o Join(none_in, ", ") \o ")",
             "    # Add your assertion or expect error",
             "" >>
       \o (IF arg_type \in {"list", "List", "str", "dict", "Dict", "set", "Set"}
           THEN << "def test_" \o func_name \o "_" \o arg_name \o "_empty():",
                   "    # Test with empty " \o arg_type,
                   "    # result = " \o func_name \o "(" \o Join(empty_in, ", ") \o ")",
                   "    # Add your assertion",
                   "" >>
           ELSE <<>>)

\* UnitTestGenerator._generate_edge_case_tests
GenerateEdgeCaseTests(func) ==
    Flatten([i \in 1..Len(func.args) |-> ArgEdgeCaseTests(func.name, func.args, i)])

\* UnitTestGenerator._generate_error_tests
GenerateErrorTests(func) ==
    << "def test_" \o func.name \o "_raises_on_invalid_input():",
       "    # Test that function raises appropriate exceptions",
       "    with pytest.raises((ValueError, TypeError)):",
       "        " \o func.name \o "(invalid_input)",
       "" >>

\* UnitTestGenerator._generate_function_test_cases
GenerateFunctionTestCases(func) ==
    IF IsPrivateName(func.name) THEN <<>>
    ELSE  << "def test_" \o func.name \o "_basic():" >>
       \o (IF func.args # <<>>
           THEN << "    # Test " \o func.name \o " with basic inputs",
                   "    result = " \o func.name \o "("
                       \o Join(DefaultInputs(func.args), ", ") \o ")",
                   "    assert result is not None  # Add your assertion" >>
           ELSE << "    # Test " \o func.name \o " with no arguments",
                   "    result = " \o func.name \o "()",
                   "    assert result is not None  # Add your assertion" >>)
       \o << "" >>
       \o GenerateEdgeCaseTests(func)
       \o GenerateErrorTests(func)

\* The lines UnitTestGenerator._generate_function_tests builds for test_functions.py
FunctionTestsContent(functions) ==
       << "\"\"\"Unit tests for functions.\"\"\"", "", "import pytest",
          "from unittest.mock import Mock, patch", "", "" >>
    \o Flatten([k \in 1..Len(functions) |->
                   GenerateFunctionTestCases(functions[k]) \o << "" >>])

\* UnitTestGenerator._generate_method_tests
GenerateMethodTests(class_name, method) ==
    LET test_args == IF method.args # <<>> THEN Tail(method.args) ELSE <<>>
        call_args == Join(DefaultInputs(test_args), ", ")
        through_type == FlagOf(method, "is_static") \/ FlagOf(method, "is_classmethod")
    IN  IF method.name = "__init__" THEN <<>>
        ELSE  << "def test_" \o class_name \o "_" \o method.name \o "():" >>
           \o (IF through_type
               THEN << "    # Test " \o method.name \o " method",
                       "    # result = " \o class_name \o "." \o method.name
                           \o "(" \o call_args \o ")" >>
               ELSE << "    # Test " \o method.name \o " method",
                       "    # instance = " \o class_name \o "()",
                       "    # result = instance." \o method.name
                           \o "(" \o call_args \o ")" >>)
           \o << "    # Add your assertions", "" >>

\* UnitTestGenerator._generate_class_test_cases
GenerateClassTestCases(cls) ==
    LET public == SelectSeqBy(cls.methods,
                              {m \in Range(cls.methods) : ~IsPrivateName(m.name)})
    IN  IF StartsWith(cls.name, "_") THEN <<>>
        ELSE  << "# Tests for " \o cls.name, "",
                 "def test_" \o cls.name \o "_init():",
                 "    # Test class initialization",
                 "    # instance = " \o cls.name \o "()",
                 "    # Add your assertions",
                 "" >>
           \o Flatten([k \in 1..Len(public) |-> GenerateMethodTests(cls.name, public[k])])

\* The lines UnitTestGenerator._generate_class_tests builds for test_classes.py
ClassTestsContent(classes) ==
       << "\"\"\"Unit tests for classes.\"\"\"", "", "import pytest",
          "from unittest.mock import Mock, patch, MagicMock", "" >>
    \o Flatten([k \in 1..Len(classes) |-> GenerateClassTestCases(classes[k]) \o << "" >>])

\* A faulty variant of UnitFiles: test_functions.py is written even for an
\* empty list of functions.
UnitFilesUnguarded(analysis) ==
       << <<"test_functions.py", FunctionTestsContent(analysis.functions)>> >>
    \o (IF analysis.classes # <<>>
        THEN << <<"test_classes.py", ClassTestsContent(analysis.classes)>> >>
        ELSE <<>>)

\* UnitTestGenerator.generate: the files it writes, in order, as <<path, lines>>
UnitFiles(analysis) ==
       (IF analysis.functions # <<>>
        THEN << <<"test_functions.py", FunctionTestsContent(analysis.functions)>> >>
        ELSE <<>>)
    \o (IF analysis.classes # <<>>
        THEN << <<"test_classes.py", ClassTestsContent(analysis.classes)>> >>
        ELSE <<>>)

-----------------------------------------------------------------------------
(* The integration test generator *)

\* IntegrationTestGenerator._generate_class_interaction_test
GenerateClassInteractionTest(class1, class2) ==
    << "def test_" \o class1 \o "_uses_" \o class2 \o "():",
       "    \"\"\"Test " \o class1 \o " using " \o class2 \o ".\"\"\"",
       "    # Setup",
       "    # " \o class2 \o "_instance = " \o class2 \o "()",
       "    # " \o class1 \o "_instance = " \o class1 \o "(" \o class2 \o "_instance)",
       "    ",
       "    # Test interaction",
       "    # Add your assertions",
       "",
       "def test_" \o class2 \o "_uses_" \o class1 \o "():",
       "    \"\"\"Test " \o class2 \o " using " \o class1 \o ".\"\"\"",
       "    # Setup",
       "    # " \o class1 \o "_instance = " \o class1 \o "()",
       "    # " \o class2 \o "_instance = " \o class2 \o "(" \o class1 \o "_instance)",
       "    ",
       "    # Test interaction",
       "    # Add your assertions",
       "" >>

\* A faulty variant of InteractionTestsFrom: the partner class is not
\* checked for a leading underscore.
InteractionTestsWithAnyPartner(classes, i) ==
    IF StartsWith(classes[i].name, "_") THEN <<>>
    ELSE Flatten([d \in 1..(Len(classes) - i) |->
                    GenerateClassInteractionTest(classes[i].name, classes[i + d].name)])

\* The interaction tests of class i with the classes after it
InteractionTestsFrom(classes, i) ==
    IF StartsWith(classes[i].name, "_") THEN <<>>
    ELSE Flatten([d \in 1..(Len(classes) - i) |->
                    IF StartsWith(classes[i + d].name, "_") THEN <<>>
                    ELSE GenerateClassInteractionTest(classes[i].name, classes[i + d].name)])

\* The lines _generate_class_integration_tests builds for test_integration_classes.py
ClassIntegrationContent(classes) ==
       << "\"\"\"Integration tests for class interactions.\"\"\"", "", "import pytest",
          "from unittest.mock import Mock, patch, MagicMock", "" >>
    \o Flatten([i \in 1..Len(classes) |-> InteractionTestsFrom(classes, i)])

\* [f for f in function_names if a in f.lower() or b in f.lower()]
NamesWith(function_names, a, b) ==
    SelectSeqBy(function_names,
                {f \in Range(function_names) : Contains(Lower(f), a) \/ Contains(Lower(f), b)})

\* IntegrationTestGenerator._generate_create_process_validate_workflow
GenerateCreateProcessValidateWorkflow(function_names) ==
    LET create_funcs == NamesWith(function_names, "create", "init")
        process_funcs == NamesWith(function_names, "process", "transform")
        validate_funcs == NamesWith(function_names, "validate", "check")
    IN  IF create_funcs # <<>> /\ process_funcs # <<>> /\ validate_funcs # <<>>
        THEN << "def test_create_process_validate_workflow():",
                "    \"\"\"Test complete create -> process -> validate workflow.\"\"\"",
                "    # Create",
                "    # data = " \o create_funcs[1] \o "(...)",
                "    ",
                "    # Process",
                "    # processed = " \o process_funcs[1] \o "(data)",
                "    ",
                "    # Validate",
                "    # result = " \o validate_funcs[1] \o "(processed)",
                "    # assert result is not None",
                "" >>
        ELSE <<>>

\* A faulty variant of GenerateDataFlowTests: a getter alone suffices.
GenerateDataFlowTestsForGetters(function_names) ==
    LET getters == NamesWith(function_names, "get", "retrieve")
    IN  IF getters # <<>>
        THEN << "def test_data_flow_between_functions():",
                "    # result = " \o getters[1] \o "(key)",
                "" >>
        ELSE <<>>

\* IntegrationTestGenerator._generate_data_flow_tests
GenerateDataFlowTests(function_names) ==
    LET getters == NamesWith(function_names, "get", "retrieve")
        setters == NamesWith(function_names, "set", "update")
    IN  IF getters # <<>> /\ setters # <<>>
        THEN << "def test_data_flow_between_functions():",
                "    \"\"\"Test data flow between getter and setter functions.\"\"\"",
                "    # Set data",
                "    # " \o setters[1] \o "(key, value)",
                "    ",
                "    # Get data",
                "    # result = " \o getters[1] \o "(key)",
                "    # assert result == value",
                "" >>
        ELSE <<>>

\* IntegrationTestGenerator._generate_error_propagation_tests
GenerateErrorPropagationTests ==
    << "def test_error_propagation():",
       "    \"\"\"Test that errors are properly propagated.\"\"\"",
       "    # Test that errors from one function propagate correctly",
       "    # with pytest.raises(Exception):",
       "    #     function1(function2(invalid_input))",
       "" >>

\* The lines _generate_workflow_tests builds for test_integration_workflows.py
WorkflowContent(functions) ==
    LET function_names == [k \in 1..Len(functions) |-> functions[k].name]
    IN     << "\"\"\"Integration tests for function workflows.\"\"\"", "", "import pytest",
              "from unittest.mock import Mock, patch, MagicMock", "" >>
        \o GenerateCreateProcessValidateWorkflow(function_names)
        \o GenerateDataFlowTests(function_names)
        \o GenerateErrorPropagationTests

\* known_services in IntegrationTestGenerator._identify_external_services
KnownServices ==
    {"requests", "urllib", "httpx", "aiohttp", "boto3", "botocore", "google",
     "google.cloud", "azure", "azure.storage", "pymongo", "redis", "sqlalchemy",
     "smtplib", "email", "stripe", "paypal", "twilio", "slack", "pusher", "socketio"}

\* IntegrationTestGenerator._identify_external_services: a set of names
IdentifyExternalServices(imports) ==
    {FirstDotted(imports[k].module) :
        k \in {j \in 1..Len(imports) : AnyIn(KnownServices, Lower(imports[j].module))}}

\* IntegrationTestGenerator._generate_external_service_test
GenerateExternalServiceTest(service) ==
    << "def test_" \o service \o "_integration():",
       "    \"\"\"Test integration with " \o service \o " service.\"\"\"",
       "    ",
       "    # Mock the external service",
       "    # with patch(\"" \o service \o "\") as mock_" \o service \o ":",
       "    #     mock_" \o service \o ".return_value = ...",
       "    ",
       "    # Test the integration",
       "    # Add your assertions",
       "",
       "def test_" \o service \o "_error_handling():",
       "    \"\"\"Test " \o service \o " error handling.\"\"\"",
       "    ",
       "    # Test error handling for " \o service \o " failures",
       "    # with patch(\"" \o service \o "\") as mock_" \o service \o ":",
       "    #     mock_" \o service \o ".side_effect = Exception(\"Service unavailable\")",
       "    #     with pytest.raises(Exception):",
       "    #         call_your_function()",
       "" >>

\* The orders in which a for loop may iterate a set of strings: the order
\* follows the strings' hashes, which differ from one interpreter process to
\* the next.
SetIterationOrders(S) ==
    {o \in [1..Cardinality(S) -> S] : \A x \in S : \E k \in DOMAIN o : o[k] = x}

\* The lines _generate_external_service_tests builds for
\* test_integration_external.py, the services iterated in the given order
ExternalContent(order) ==
       << "\"\"\"Integration tests for external service interactions.\"\"\"", "",
          "import pytest", "from unittest.mock import Mock, patch, MagicMock", "" >>
    \o Flatten([k \in 1..Len(order) |-> GenerateExternalServiceTest(order[k])])

\* IntegrationTestGenerator.generate: the files it writes, in order, as
\* <<path, lines>>, the set of external services iterated in the given order
IntegrationFiles(analysis, order) ==
       (IF analysis.classes # <<>>
        THEN << <<"test_integration_classes.py", ClassIntegrationContent(analysis.classes)>> >>
        ELSE <<>>)
    \o (IF analysis.functions # <<>>
        THEN << <<"test_integration_workflows.py", WorkflowContent(analysis.functions)>> >>
        ELSE <<>>)
    \o (IF analysis.imports # <<>>
        THEN << <<"test_integration_external.py", ExternalContent(order)>> >>
        ELSE <<>>)

-----------------------------------------------------------------------------
(* The property-based test generator *)

\* Python: s.replace(old, '')
RECURSIVE Remove(_, _)
Remove(s, old) ==
    IF Len(s) < Len(old) THEN s
    ELSE IF SubSeq(s, 1, Len(old)) = old THEN Remove(SubSeq(s, Len(old) + 1, Len(s)), old)
    ELSE SubSeq(s, 1, 1) \o Remove(SubSeq(s, 2, Len(s)), old)

\* Python: s.rstrip(c)
RECURSIVE RStrip(_, _)
RStrip(s, c) ==
    IF Len(s) > 0 /\ SubSeq(s, Len(s), Len(s)) = c
    THEN RStrip(SubSeq(s, 1, Len(s) - 1), c)
    ELSE s

IntStrategy == "st.integers(min_value=-1000, max_value=1000)"

\* type_mapping.get(type_hint, 'st.none()') in _get_strategy_for_type
StrategyMapping(type_hint) ==
    CASE type_hint = "int" -> IntStrategy
      [] type_hint = "float" ->
            "st.floats(min_value=-1000, max_value=1000, allow_nan=False, allow_infinity=False)"
      [] type_hint = "str" -> "st.text(min_size=0, max_size=100)"
      [] type_hint = "bool" -> "st.booleans()"
      [] type_hint \in {"list", "List"} -> "st.lists(st.integers(), max_size=10)"
      [] type_hint \in {"dict", "Dict"} ->
            "st.dictionaries(st.text(), st.integers(), max_size=10)"
      [] type_hint \in {"set", "Set"} -> "st.sets(st.integers(), max_size=10)"
      [] type_hint \in {"tuple", "Tuple"} -> "st.tuples(st.integers(), st.integers())"
      [] type_hint \in {"bytes", "bytearray"} -> "st.binary(min_size=0, max_size=100)"
      [] OTHER -> "st.none()"

\* PropertyBasedTestGenerator._get_strategy_for_type
GetStrategyForType(type_hint) ==
    LET stripped == IF Contains(type_hint, "Optional[")
                    THEN RStrip(Remove(type_hint, "Optional["), "]")
                    ELSE type_hint
    IN  IF Contains(stripped, "Union[")
        THEN "st.one_of(" \o StrategyMapping("int") \o ", st.none())"
        ELSE StrategyMapping(stripped)

\* PropertyBasedTestGenerator._generate_assumptions
GenerateAssumptions(func) ==
    Flatten([k \in 1..Len(func.args) |->
        LET a == func.args[k]
        IN  IF a.annotation \in {"int", "float"}
            THEN << "    assume(" \o a.name \o " is not None)",
                    "    assume(not (isinstance(" \o a.name \o ", float) and ("
                        \o a.name \o " != " \o a.name \o ")))" >>
            ELSE IF a.annotation \in {"str", "String"}
            THEN << "    assume(" \o a.name \o " is not None)" >>
            ELSE <<>>])

\* PropertyBasedTestGenerator._generate_property_assertions
GeneratePropertyAssertions(func) ==
       << "    # Property: Result should not be None for valid inputs",
          "    # assert result is not None", "" >>
    \o (IF func.return_type \in {"int", "float"}
        THEN << "    # Property: Result should be a number",
                "    # assert isinstance(result, (int, float))" >>
        ELSE IF func.return_type \in {"str", "String"}
        THEN << "    # Property: Result should be a string",
                "    # assert isinstance(result, str)" >>
        ELSE IF func.return_type \in {"bool", "Boolean"}
        THEN << "    # Property: Result should be a boolean",
                "    # assert isinstance(result, bool)" >>
        ELSE <<>>)

\* A faulty variant of GenerateInversePropertyTest: the name is not lowercased.
GenerateInversePropertyTestCaseSensitive(func) ==
    IF \E kw \in {"encode", "encrypt", "serialize"} : Contains(func.name, kw)
    THEN << "@given(value=st.text())",
            "@settings(max_examples=50)",
            "def test_" \o func.name \o "_inverse_property(value):",
            "" >>
    ELSE <<>>

\* PropertyBasedTestGenerator._generate_inverse_property_test
GenerateInversePropertyTest(func) ==
    IF AnyIn({"encode", "encrypt", "serialize"}, Lower(func.name))
    THEN << "@given(value=st.text())",
            "@settings(max_examples=50)",
            "def test_" \o func.name \o "_inverse_property(value):",
            "    \"\"\"Test inverse property: decode(encode(x)) == x.\"\"\"",
            "    # encoded = " \o func.name \o "(value)",
            "    # decoded = decode(encoded)",
            "    # assert decoded == value",
            "" >>
    ELSE <<>>

\* PropertyBasedTestGenerator._generate_consistency_property_test
GenerateConsistencyPropertyTest(func) ==
    << "@given(value=st.integers(min_value=0, max_value=100))",
       "@settings(max_examples=50)",
       "def test_" \o func.name \o "_consistency(value):",
       "    \"\"\"Test consistency: Same input should give same output.\"\"\"",
       "    # result1 = " \o func.name \o "(value)",
       "    # result2 = " \o func.name \o "(value)",
       "    # assert result1 == result2",
       "" >>

\* The "@given(" line and the strategy lines: every line but the last gets
\* ", " appended when the next strategy is added
GivenLines(args) ==
    LET n == Len(args)
        strat(i) == "    " \o args[i].name \o "=" \o GetStrategyForType(args[i].annotation)
    IN  IF n = 0 THEN << "@given(" >>
        ELSE << "@given(" >>
             \o [i \in 1..n |-> IF i < n THEN strat(i) \o ", " ELSE strat(i)]

\* PropertyBasedTestGenerator._generate_function_property_test
GenerateFunctionPropertyTest(func) ==
    LET names == Join([k \in 1..Len(func.args) |-> func.args[k].name], ", ")
    IN     GivenLines(func.args)
        \o << ")",
              "@settings(max_examples=100)",
              "def test_" \o func.name \o "_propertybased(" \o names \o "):",
              "    \"\"\"Property-based test for " \o func.name \o ".\"\"\"" >>
        \o GenerateAssumptions(func)
        \o << "    result = " \o func.name \o "(" \o names \o ")" >>
        \o GeneratePropertyAssertions(func)
        \o << "" >>
        \o GenerateInversePropertyTest(func)
        \o GenerateConsistencyPropertyTest(func)

\* The lines _generate_function_property_tests builds for test_property_functions.py
FunctionPropertyContent(functions) ==
       << "\"\"\"Property-based tests for functions using Hypothesis.\"\"\"", "",
          "from hypothesis import given, settings, assume",
          "from hypothesis import strategies as st", "import pytest", "" >>
    \o Flatten([k \in 1..Len(functions) |->
                   IF IsPrivateName(functions[k].name) THEN <<>>
                   ELSE GenerateFunctionPropertyTest(functions[k]) \o << "" >>])

\* PropertyBasedTestGenerator._generate_method_property_test
GenerateMethodPropertyTest(class_name, method) ==
    << "@given(value=st.integers())",
       "@settings(max_examples=50)",
       "def test_" \o class_name \o "_" \o method.name \o "_property(value):",
       "    \"\"\"Property-based test for " \o class_name \o "." \o method.name \o ".\"\"\"",
       "    # instance = " \o class_name \o "()",
       "    # result = instance." \o method.name \o "(value)",
       "    # assert result is not None  # Add property assertions",
       "" >>

\* PropertyBasedTestGenerator._generate_class_property_test
GenerateClassPropertyTest(cls) ==
    LET tested == SelectSeqBy(cls.methods,
                     {m \in Range(cls.methods) :
                         ~IsPrivateName(m.name) /\ m.name # "__init__"})
    IN     << "@given(data=st.data())",
              "@settings(max_examples=50)",
              "def test_" \o cls.name \o "_initialization_property(data):",
              "    \"\"\"Property-based test for " \o cls.name \o " initialization.\"\"\"",
              "    # Test that class can be initialized with valid inputs",
              "    # Add your initialization strategies",
              "" >>
        \o Flatten([k \in 1..Len(tested) |-> GenerateMethodPropertyTest(cls.name, tested[k])])

\* The lines _generate_class_property_tests builds for test_property_classes.py
ClassPropertyContent(classes) ==
       << "\"\"\"Property-based tests for classes using Hypothesis.\"\"\"", "",
          "from hypothesis import given, settings, assume",
          "from hypothesis import strategies as st", "import pytest", "" >>
    \o Flatten([k \in 1..Len(classes) |->
                   IF StartsWith(classes[k].name, "_") THEN <<>>
                   ELSE GenerateClassPropertyTest(classes[k]) \o << "" >>])

\* PropertyBasedTestGenerator.generate: the files it writes, in order, as <<path, lines>>
PropertyFiles(analysis) ==
       (IF analysis.functions # <<>>
        THEN << <<"test_property_functions.py", FunctionPropertyContent(analysis.functions)>> >>
        ELSE <<>>)
    \o (IF analysis.classes # <<>>
        THEN << <<"test_property_classes.py", ClassPropertyContent(analysis.classes)>> >>
        ELSE <<>>)

-----------------------------------------------------------------------------
(* The source files of a run *)

Alias(name) == [name |-> name, asname |-> ""]
Arg(name, annotation) == [name |-> name, annotation |-> annotation]

\* import requests; import boto3
\* def divide(a: int, b: int) -> float:
\*     if b == 0: ...
CalcTree ==
    << Node("Module", 0, ""),
       [Node("Import", 1, "") EXCEPT !.names = <<Alias("requests")>>],
       [Node("Import", 1, "") EXCEPT !.names = <<Alias("boto3")>>],
       [Node("FunctionDef", 1, "divide") EXCEPT
           !.args = <<Arg("a", "int"), Arg("b", "int")>>, !.returns = "float"],
       Node("If", 4, "") >>

\* import redis
\* class Producer:
\*     def get(self, key: str): ...
\*     @staticmethod
\*     def make(n: int): ...
StoreTree ==
    << Node("Module", 0, ""),
       [Node("Import", 1, "") EXCEPT !.names = <<Alias("redis")>>],
       Node("ClassDef", 1, "Producer"),
       [Node("FunctionDef", 3, "get") EXCEPT
           !.args = <<Arg("self", ""), Arg("key", "str")>>],
       [Node("FunctionDef", 3, "make") EXCEPT
           !.args = <<Arg("n", "int")>>, !.decorators = <<"staticmethod">>] >>

\* A file: text that parses to a tree, or text that does not parse.
SourceUnits ==
    { [status |-> "ok", tree |-> CalcTree],
      [status |-> "ok", tree |-> StoreTree],
      [status |-> "malformed", tree |-> <<>>] }

Batches == UNION {[1..n -> SourceUnits] : n \in 0..MaxFiles}

PathOf(i) == "src/file" \o ToString(i) \o ".py"

-----------------------------------------------------------------------------
(* State *)

VARIABLES
    files,            \* the files analyze_code iterates, in order
    test_type,        \* --test-type
    run_tests,        \* --run-tests
    pc,               \* the stage SmartTestGenerator.run is at
    idx,              \* the next file of the analysis loop
    analysis,         \* analysis_results
    diagnostics,      \* the files reported as skipped
    generated,        \* the local list of generate_tests
    generated_tests,  \* self.generated_tests
    outdir,           \* the output directory: path -> lines
    test_results,     \* the results of the external runner
    report,           \* the report
    log,              \* the stages executed so far
    second,           \* this is the second run of the pipeline
    prev,             \* what the first run produced
    astTree,          \* a syntax tree handed to the extractor
    astOut,           \* what the extractor returned for it
    detIn,            \* records handed to the classifiers
    detOut,           \* what the classifiers returned for them
    genIn,            \* analysis results handed to the generators
    genOut,           \* the files the generators built from them
    parser,           \* a CodeParser: source_code, tree, tokens
    parOut            \* the last call on the parser and what it returned

pipeVars == <<files, test_type, run_tests, pc, idx, analysis, diagnostics, generated,
              generated_tests, outdir, test_results, report, log, second, prev>>
astVars == <<astTree, astOut>>
detVars == <<detIn, detOut>>
genVars == <<genIn, genOut>>
parVars == <<parser, parOut>>
vars == <<pipeVars, astVars, detVars, genVars, parVars>>

EmptyAnalysis ==
    [files |-> <<>>, functions |-> <<>>, classes |-> <<>>, imports |-> <<>>,
     edge_cases |-> <<>>, failure_modes |-> <<>>]

EmptyDir == [p \in {} |-> <<>>]

NoResults == [ran |-> FALSE, passed |-> 0, failed |-> 0, skipped |-> 0, errors |-> 0,
              total |-> 0]

NoReport == [made |-> FALSE]

NoPrev == [analysis |-> EmptyAnalysis, generated_tests |-> <<>>, outdir |-> EmptyDir]

NoAstOut == [stage |-> "start", functions |-> <<>>, classes |-> <<>>]
NoDetOut == [stage |-> "start", edge_cases |-> <<>>, failure_modes |-> <<>>]
NoGenOut == [stage |-> "start", unit |-> <<>>, integration |-> <<>>, property |-> <<>>]

\* CodeParser.__init__: no text, no tree (None), no tokens
NewParser == [source_code |-> "", tree |-> <<>>, tokens |-> <<>>]
NoCall == [call |-> "none", raised |-> FALSE, value |-> <<>>]
ParIdle == parser = NewParser /\ parOut = NoCall

AstIdle == astTree = <<>> /\ astOut = NoAstOut
DetIdle == detIn = [functions |-> <<>>, classes |-> <<>>] /\ detOut = NoDetOut
GenIdle == genIn = [functions |-> <<>>, classes |-> <<>>, imports |-> <<>>] /\ genOut = NoGenOut
PipeIdle ==
    /\ files = <<>> /\ test_type = "all" /\ run_tests = FALSE
    /\ pc = "idle" /\ idx = 1 /\ analysis = EmptyAnalysis /\ diagnostics = <<>>
    /\ generated = <<>> /\ generated_tests = <<>> /\ outdir = EmptyDir
    /\ test_results = NoResults /\ report = NoReport /\ log = <<>>
    /\ second = FALSE /\ prev = NoPrev

-----------------------------------------------------------------------------
(* SmartTestGenerator *)

\* SmartTestGenerator.__init__ and the start of run
Init ==
    /\ files \in Batches
    /\ test_type \in {"all", "unit", "integration", "property"}
    /\ run_tests \in BOOLEAN
    /\ pc = "analyze"
    /\ idx = 1
    /\ analysis = EmptyAnalysis
    /\ diagnostics = <<>>
    /\ generated = <<>>
    /\ generated_tests = <<>>
    /\ outdir = EmptyDir
    /\ test_results = NoResults
    /\ report = NoReport
    /\ log = <<>>
    /\ second = FALSE
    /\ prev = NoPrev
    /\ AstIdle
    /\ DetIdle
    /\ GenIdle
    /\ ParIdle

\* The body of the try block of analyze_code for one file that parses
AnalyzeOne(results, path, tree) ==
    LET functions == ExtractFunctions(tree)
        classes == ExtractClasses(tree)
        imports == ExtractImports(tree)
    IN  [files |-> Append(results.files, path),
         functions |-> results.functions \o functions,
         classes |-> results.classes \o classes,
         imports |-> results.imports \o imports,
         edge_cases |-> results.edge_cases \o EdgeDetect(functions, classes),
         failure_modes |-> results.failure_modes \o FailureDetect(functions, classes)]

\* CodeParser.parse raises SyntaxError
ParseRaises(unit) == unit.status = "malformed"

\* A faulty variant of AnalyzeFile: the file is listed before it is parsed,
\* so a file that fails stays in the list of analyzed files.
AnalyzeFileListsFirst ==
    /\ pc = "analyze"
    /\ idx <= Len(files)
    /\ IF ParseRaises(files[idx])
       THEN /\ diagnostics' = Append(diagnostics, PathOf(idx))
            /\ analysis' = [analysis EXCEPT !.files = Append(@, PathOf(idx))]
       ELSE /\ analysis' = AnalyzeOne(analysis, PathOf(idx), files[idx].tree)
            /\ UNCHANGED diagnostics
    /\ idx' = idx + 1
    /\ log' = Append(log, "analyze")
    /\ UNCHANGED <<files, test_type, run_tests, pc, generated, generated_tests, outdir,
                   test_results, report, second, prev, astVars, detVars, genVars, parVars>>

\* A faulty variant of AnalyzeFile: the try block encloses the loop, so the
\* first file that fails ends the analysis of the batch.
AnalyzeFileEndsBatch ==
    /\ pc = "analyze"
    /\ idx <= Len(files)
    /\ IF ParseRaises(files[idx])
       THEN /\ diagnostics' = Append(diagnostics, PathOf(idx))
            /\ idx' = Len(files) + 1
            /\ UNCHANGED analysis
       ELSE /\ analysis' = AnalyzeOne(analysis, PathOf(idx), files[idx].tree)
            /\ idx' = idx + 1
            /\ UNCHANGED diagnostics
    /\ log' = Append(log, "analyze")
    /\ UNCHANGED <<files, test_type, run_tests, pc, generated, generated_tests, outdir,
                   test_results, report, second, prev, astVars, detVars, genVars, parVars>>

\* One iteration of the loop of analyze_code
AnalyzeFile ==
    /\ pc = "analyze"
    /\ idx <= Len(files)
    /\ IF ParseRaises(files[idx])
       THEN /\ diagnostics' = Append(diagnostics, PathOf(idx))
            /\ UNCHANGED analysis
       ELSE /\ analysis' = AnalyzeOne(analysis, PathOf(idx), files[idx].tree)
            /\ UNCHANGED diagnostics
    /\ idx' = idx + 1
    /\ log' = Append(log, "analyze")
    /\ UNCHANGED <<files, test_type, run_tests, pc, generated, generated_tests, outdir,
                   test_results, report, second, prev, astVars, detVars, genVars, parVars>>

\* The end of analyze_code: self.analysis_results is set, run goes on to generate_tests
FinishAnalysis ==
    /\ pc = "analyze"
    /\ idx > Len(files)
    /\ pc' = "mkdir"
    /\ UNCHANGED <<files, test_type, run_tests, idx, analysis, diagnostics, generated,
                   generated_tests, outdir, test_results, report, log, second, prev,
                   astVars, detVars, genVars, parVars>>

\* A faulty variant of MakeOutputDir: on failure the list of generated tests
\* names a file that was never written.
MakeOutputDirRecordsFile ==
    /\ pc = "mkdir"
    /\ \/ /\ pc' = "unit"
          /\ generated' = <<>>
          /\ UNCHANGED generated_tests
       \/ /\ pc' = "aborted"
          /\ generated_tests' = <<"test_functions.py">>
          /\ UNCHANGED generated
    /\ UNCHANGED <<files, test_type, run_tests, idx, analysis, diagnostics,
                   outdir, test_results, report, log, second, prev,
                   astVars, detVars, genVars, parVars>>

\* self.output_path.mkdir(parents=True, exist_ok=True)
MakeOutputDir ==
    /\ pc = "mkdir"
    /\ \/ /\ pc' = "unit"
          /\ generated' = <<>>
       \/ /\ pc' = "aborted"     \* OSError: the directory cannot be created
          /\ UNCHANGED generated
    /\ UNCHANGED <<files, test_type, run_tests, idx, analysis, diagnostics,
                   generated_tests, outdir, test_results, report, log, second, prev,
                   astVars, detVars, genVars, parVars>>

\* with open(test_file, 'w') as f: f.write('\n'.join(test_content)), completed
WriteFile(dir, path, lines) ==
    [p \in (DOMAIN dir) \cup {path} |-> IF p = path THEN lines ELSE dir[p]]

RECURSIVE WriteAll(_, _)
WriteAll(dir, fs) ==
    IF fs = <<>> THEN dir ELSE WriteAll(WriteFile(dir, Head(fs)[1], Head(fs)[2]), Tail(fs))

Min(a, b) == IF a < b THEN a ELSE b

\* The directory after a generator raised at one of its files: the files
\* before it are written; open(test_file, 'w') either raised, leaving the file
\* as it was, or truncated the file and the write then raised with only the
\* first lines, or none, on the disk.
FailedWrites(dir, fs) ==
    LET before(k) == WriteAll(dir, SubSeq(fs, 1, k - 1))
    IN  {before(k) : k \in 1..Len(fs)}
        \cup {WriteFile(before(k), fs[k][1], SubSeq(fs[k][2], 1, m)) :
                 k \in 1..Len(fs), m \in 0..MaxPartial}

PathsOf(fs) == [k \in 1..Len(fs) |-> fs[k][1]]

\* One generator call of generate_tests and what follows it
Generate(stage, kinds, fs, next) ==
    /\ pc = stage
    /\ \/ /\ test_type \notin kinds
          /\ pc' = next
          /\ UNCHANGED <<generated, outdir, log>>
       \/ /\ test_type \in kinds
          /\ outdir' = WriteAll(outdir, fs)
          /\ generated' = generated \o PathsOf(fs)
          /\ log' = Append(log, stage)
          /\ pc' = next
       \/ /\ test_type \in kinds
          /\ outdir' \in FailedWrites(outdir, fs)
          /\ log' = Append(log, stage)
          /\ pc' = "aborted"
          /\ UNCHANGED generated
    /\ UNCHANGED <<files, test_type, run_tests, idx, analysis, diagnostics,
                   generated_tests, test_results, report, second, prev, astVars, detVars, genVars, parVars>>

\* generate_tests: unit tests
GenerateUnit == Generate("unit", {"all", "unit"}, UnitFiles(analysis), "integration")

\* generate_tests: integration tests
GenerateIntegration ==
    \E order \in SetIterationOrders(IdentifyExternalServices(analysis.imports)) :
        Generate("integration", {"all", "integration"},
                 IntegrationFiles(analysis, order), "property")

\* generate_tests: property-based tests
GenerateProperty ==
    Generate("property", {"all", "property"}, PropertyFiles(analysis), "generated")

\* A faulty variant of AfterGeneration: the runner is invoked in every run.
AfterGenerationAlwaysRuns(run) == "run_tests"

\* What run does after generate_tests returned
AfterGeneration(run) == IF run THEN "run_tests" ELSE "report"

\* The end of generate_tests: self.generated_tests = generated
FinishGeneration ==
    /\ pc = "generated"
    /\ generated_tests' = generated
    /\ pc' = AfterGeneration(run_tests)
    /\ UNCHANGED <<files, test_type, run_tests, idx, analysis, diagnostics, generated,
                   outdir, test_results, report, log, second, prev, astVars, detVars, genVars, parVars>>

\* What the summary line of pytest may report: passed, failed
PytestSummaries == {<<0, 1>>, <<1, 1>>}

\* TestRunner.run, as run_tests calls it
RunTests ==
    /\ pc = "run_tests"
    /\ \/ /\ generated_tests = <<>>
          /\ test_results' = [NoResults EXCEPT !.ran = TRUE]
       \/ /\ generated_tests # <<>>      \* pytest exits with 0
          /\ test_results' = [NoResults EXCEPT !.ran = TRUE,
                                               !.passed = Len(generated_tests),
                                               !.total = Len(generated_tests)]
       \/ /\ generated_tests # <<>>      \* pytest exits with another code
          /\ \E s \in PytestSummaries :
                test_results' = [NoResults EXCEPT !.ran = TRUE, !.passed = s[1],
                                                   !.failed = s[2], !.total = s[1] + s[2]]
       \/ /\ generated_tests # <<>>      \* pytest cannot be run, or times out
          /\ test_results' = [NoResults EXCEPT !.ran = TRUE,
                                               !.errors = Len(generated_tests)]
    /\ log' = Append(log, "run_tests")
    /\ pc' = "report"
    /\ UNCHANGED <<files, test_type, run_tests, idx, analysis, diagnostics, generated,
                   generated_tests, outdir, report, second, prev, astVars, detVars, genVars, parVars>>

\* ReportGenerator.generate: the figures of the report
ReportOf(a, tests, results) ==
    [made |-> TRUE,
     files |-> Len(a.files), functions |-> Len(a.functions), classes |-> Len(a.classes),
     edge_cases |-> Len(a.edge_cases), failure_modes |-> Len(a.failure_modes),
     tests |-> tests, results |-> results]

\* generate_report and the return of run
GenerateReport ==
    /\ pc = "report"
    /\ report' = ReportOf(analysis, generated_tests, test_results)
    /\ log' = Append(log, "report")
    /\ pc' = "done"
    /\ UNCHANGED <<files, test_type, run_tests, idx, analysis, diagnostics, generated,
                   generated_tests, outdir, test_results, second, prev, astVars, detVars, genVars, parVars>>

\* The command is run again on the unchanged source, by a new process, after
\* the output directory was emptied.
RunAgain ==
    /\ pc = "done"
    /\ ~second
    /\ second' = TRUE
    /\ prev' = [analysis |-> analysis, generated_tests |-> generated_tests,
                outdir |-> outdir]
    /\ outdir' = EmptyDir
    /\ pc' = "analyze"
    /\ idx' = 1
    /\ analysis' = EmptyAnalysis
    /\ diagnostics' = <<>>
    /\ generated' = <<>>
    /\ generated_tests' = <<>>
    /\ test_results' = NoResults
    /\ report' = NoReport
    /\ log' = <<>>
    /\ UNCHANGED <<files, test_type, run_tests, astVars, detVars, genVars, parVars>>

Next ==
    \/ AnalyzeFile
    \/ FinishAnalysis
    \/ MakeOutputDir
    \/ GenerateUnit
    \/ GenerateIntegration
    \/ GenerateProperty
    \/ FinishGeneration
    \/ RunTests
    \/ GenerateReport
    \/ RunAgain

Spec == Init /\ [][Next]_vars

-----------------------------------------------------------------------------
(* The extractor on a drawn syntax tree *)

DrawnKinds == {"FunctionDef", "AsyncFunctionDef", "ClassDef", "If", "While", "For",
               "Try", "ExceptHandler", "BoolOp"}

\* Python's grammar: where a node of a kind may hang.
MayHang(t, kind, parent) ==
    CASE kind = "ExceptHandler" -> t[parent].kind = "Try"
      [] kind = "BoolOp" ->
            \/ t[parent].kind \in BlockKinds
            \/ /\ t[parent].kind = "BoolOp"
               /\ Len(Children(t, parent)) < t[parent].nvalues
      [] OTHER -> t[parent].kind \in BlockKinds

DrawnName(kind, i) ==
    IF kind \in {"FunctionDef", "AsyncFunctionDef"} THEN "f" \o ToString(i)
    ELSE IF kind = "ClassDef" THEN "C" \o ToString(i)
    ELSE ""

\* The nodes that may be added to the tree t
Extensions(t) ==
    LET i == Len(t) + 1
    IN  UNION {{Node(kind, parent, DrawnName(kind, i)) :
                    parent \in {q \in 1..Len(t) : MayHang(t, kind, q)}} :
                  kind \in DrawnKinds \ {"BoolOp"}}
        \cup
        {[Node("BoolOp", parent, "") EXCEPT !.nvalues = v] :
            parent \in {q \in 1..Len(t) : MayHang(t, "BoolOp", q)}, v \in 2..MaxOperands}

\* The extractor is handed the tree of an empty module, or of any longer text.
InitAst ==
    /\ astTree = <<Node("Module", 0, "")>>
    /\ astOut = NoAstOut
    /\ PipeIdle
    /\ DetIdle
    /\ GenIdle
    /\ ParIdle

\* The text handed to the extractor holds one more construct.
LongerText ==
    /\ astOut.stage = "start"
    /\ Len(astTree) < MaxNodes
    /\ astTree' \in {Append(astTree, x) : x \in Extensions(astTree)}
    /\ UNCHANGED <<astOut, pipeVars, detVars, genVars, parVars>>

\* functions = self.ast_analyzer.extract_functions(tree)
CallExtractFunctions ==
    /\ astOut.stage = "start"
    /\ astOut' = [astOut EXCEPT !.stage = "functions",
                                !.functions = ExtractFunctions(astTree)]
    /\ UNCHANGED <<astTree, pipeVars, detVars, genVars, parVars>>

\* classes = self.ast_analyzer.extract_classes(tree)
CallExtractClasses ==
    /\ astOut.stage = "functions"
    /\ astOut' = [astOut EXCEPT !.stage = "classes", !.classes = ExtractClasses(astTree)]
    /\ UNCHANGED <<astTree, pipeVars, detVars, genVars, parVars>>

NextAst == LongerText \/ CallExtractFunctions \/ CallExtractClasses

SpecAst == InitAst /\ [][NextAst]_vars

-----------------------------------------------------------------------------
(* The classifiers on drawn records *)

FunctionRecord(name, args, return_type) ==
    [name |-> name, args |-> args, return_type |-> return_type, decorators |-> <<>>,
     docstring |-> "", line_number |-> 1, complexity |-> 1, is_async |-> FALSE,
     has_varargs |-> FALSE, has_kwargs |-> FALSE, has_defaults |-> FALSE]

ClassRecord(name, methods) ==
    [name |-> name, bases |-> <<>>, methods |-> methods, attributes |-> <<>>,
     docstring |-> "", line_number |-> 1]

DrawnFunctions ==
    { FunctionRecord("find_sorted", <<Arg("items", "list")>>, "int"),
      FunctionRecord("divide", <<Arg("a", "int"), Arg("b", "int")>>, "float"),
      [FunctionRecord("fetch_all", <<>>, "") EXCEPT
          !.is_async = TRUE, !.has_varargs = TRUE, !.has_kwargs = TRUE],
      FunctionRecord("_check_recursive", <<Arg("node", "")>>, "Optional[List[int]]"),
      FunctionRecord("Parse_Config", <<Arg("text", "str")>>, "dict"),
      FunctionRecord("Save_Order", <<Arg("order", "dict")>>, ""),
      FunctionRecord("load_index", <<>>, "List[int]"),
      FunctionRecord("run", <<>>, ""),
      [body |-> "plain recursion over the children"] @@ FunctionRecord("walk", <<>>, "") }
    \cup {[FunctionRecord("tally", <<>>, "") EXCEPT !.complexity = c] : c \in {10, 11, 15, 16}}

DrawnClasses ==
    { ClassRecord("Producer", << FunctionRecord("__init__", <<Arg("self", "")>>, ""),
                                 FunctionRecord("__str__", <<Arg("self", "")>>, "str"),
                                 FunctionRecord("__repr__", <<Arg("self", "")>>, "str") >>),
      ClassRecord("_Hidden", <<>>) }

InitDetect ==
    /\ detIn \in [functions : UNION {[1..n -> DrawnFunctions] : n \in 0..MaxFuncs},
                  classes : UNION {[1..n -> DrawnClasses] : n \in 0..MaxClasses}]
    /\ detOut = NoDetOut
    /\ PipeIdle
    /\ AstIdle
    /\ GenIdle
    /\ ParIdle

\* edge_cases = self.edge_detector.detect(functions, classes)
CallEdgeDetect ==
    /\ detOut.stage = "start"
    /\ detOut' = [detOut EXCEPT !.stage = "edge_cases",
                                !.edge_cases = EdgeDetect(detIn.functions, detIn.classes)]
    /\ UNCHANGED <<detIn, pipeVars, astVars, genVars, parVars>>

\* failure_modes = self.failure_detector.detect(functions, classes)
CallFailureDetect ==
    /\ detOut.stage = "edge_cases"
    /\ detOut' = [detOut EXCEPT !.stage = "failure_modes",
                                !.failure_modes = FailureDetect(detIn.functions, detIn.classes)]
    /\ UNCHANGED <<detIn, pipeVars, astVars, genVars, parVars>>

NextDetect == CallEdgeDetect \/ CallFailureDetect

SpecDetect == InitDetect /\ [][NextDetect]_vars

-----------------------------------------------------------------------------
(* The generators on drawn analysis results *)

\* Annotations as the extractor renders them (ast.unparse), "" when absent
DrawnAnnotations ==
    {"", "int", "float", "str", "bool", "list", "dict", "set", "tuple", "bytes",
     "bytearray", "Decimal", "Optional[int]", "Optional[str]", "List[int]",
     "Dict[str, int]", "Set[int]", "Optional[List[int]]", "Union[int, str]",
     "Union[str, int]"}

\* The annotations drawn for functions of several arguments
DrawnArgAnnotations == {"int", "str", "list"}

DrawnArgs(annotations) == [k \in 1..Len(annotations) |-> Arg("x" \o ToString(k), annotations[k])]

\* Argument lists: one argument of any drawn annotation, or up to MaxArgs
\* arguments
DrawnArgLists ==
    {DrawnArgs(<<a>>) : a \in DrawnAnnotations}
    \cup {DrawnArgs(as) : as \in UNION {[1..n -> DrawnArgAnnotations] : n \in 0..MaxArgs}}

DrawnSignatureNames == {"divide", "_helper", "__call__", "Encode_Data"}

\* Function lists of one function with a drawn signature
DrawnSignatures ==
    {<<FunctionRecord(name, args, "")>> : name \in DrawnSignatureNames, args \in DrawnArgLists}

DrawnWorkflowNames ==
    {"create_user", "transform", "check_user", "get_user", "update_user", "_serialize"}

\* Function lists of up to MaxNames functions without arguments
DrawnNameLists ==
    {[k \in 1..Len(names) |-> FunctionRecord(names[k], <<>>, "")] :
        names \in UNION {[1..n -> DrawnWorkflowNames] : n \in 0..MaxNames}}

\* Method records as the extractor builds them, and one that carries the
\* is_static key
DrawnMethods ==
    << FunctionRecord("__init__", <<Arg("self", ""), Arg("size", "int")>>, ""),
       FunctionRecord("get", <<Arg("self", ""), Arg("key", "str")>>, ""),
       FunctionRecord("_flush", <<Arg("self", "")>>, ""),
       FunctionRecord("__len__", <<Arg("self", "")>>, "int"),
       [FunctionRecord("make", <<Arg("n", "int")>>, "") EXCEPT
           !.decorators = <<"staticmethod">>],
       [name |-> "build", args |-> <<Arg("cls", ""), Arg("n", "int")>>,
        is_classmethod |-> TRUE] >>

DrawnGenClasses ==
    { ClassRecord("Producer", DrawnMethods),
      ClassRecord("Consumer", <<>>),
      ClassRecord("Broker", <<FunctionRecord("__init__", <<Arg("self", "")>>, "")>>),
      ClassRecord("_Hidden", <<FunctionRecord("run", <<Arg("self", "")>>, "")>>) }

ImportOf(module, name, type) == [module |-> module, name |-> name, type |-> type]

\* import requests; from requests import get; import boto3; import Redis;
\* import os; from utils import email_helper
DrawnImports ==
    { ImportOf("requests", "requests", "import"),
      ImportOf("requests.get", "get", "from_import"),
      ImportOf("boto3", "boto3", "import"),
      ImportOf("Redis", "Redis", "import"),
      ImportOf("os", "os", "import"),
      ImportOf("utils.email_helper", "email_helper", "from_import") }

\* The analysis results handed to the generators: functions only, classes
\* only or imports only
DrawnAnalyses ==
    {[functions |-> fs, classes |-> <<>>, imports |-> <<>>] :
        fs \in DrawnSignatures \cup DrawnNameLists}
    \cup {[functions |-> <<>>, classes |-> cs, imports |-> <<>>] :
            cs \in UNION {[1..n -> DrawnGenClasses] : n \in 0..MaxGenClasses}}
    \cup {[functions |-> <<>>, classes |-> <<>>, imports |-> is] :
            is \in UNION {[1..n -> DrawnImports] : n \in 0..MaxImports}}

InitGen ==
    /\ genIn \in DrawnAnalyses
    /\ genOut = NoGenOut
    /\ ParIdle
    /\ PipeIdle
    /\ AstIdle
    /\ DetIdle

\* unit_tests = self.unit_generator.generate(self.analysis_results, ...)
CallUnitGenerate ==
    /\ genOut.stage = "start"
    /\ genOut' = [genOut EXCEPT !.stage = "unit", !.unit = UnitFiles(genIn)]
    /\ UNCHANGED <<genIn, pipeVars, astVars, detVars, parVars>>

\* integration_tests = self.integration_generator.generate(...)
CallIntegrationGenerate ==
    /\ genOut.stage = "unit"
    /\ \E order \in SetIterationOrders(IdentifyExternalServices(genIn.imports)) :
          genOut' = [genOut EXCEPT !.stage = "integration",
                                   !.integration = IntegrationFiles(genIn, order)]
    /\ UNCHANGED <<genIn, pipeVars, astVars, detVars, parVars>>

\* property_tests = self.property_generator.generate(...)
CallPropertyGenerate ==
    /\ genOut.stage = "integration"
    /\ genOut' = [genOut EXCEPT !.stage = "property", !.property = PropertyFiles(genIn)]
    /\ UNCHANGED <<genIn, pipeVars, astVars, detVars, parVars>>

NextGen == CallUnitGenerate \/ CallIntegrationGenerate \/ CallPropertyGenerate

SpecGen == InitGen /\ [][NextGen]_vars

-----------------------------------------------------------------------------
(* The code parser *)

\* The texts handed to CodeParser.parse, each with what ast.parse makes of
\* it: a tree, or a SyntaxError (valid = FALSE)
DrawnTexts ==
    { [source |-> "", valid |-> TRUE, tree |-> <<Node("Module", 0, "")>>],
      [source |-> "def load ( ) : pass", valid |-> TRUE,
       tree |-> <<Node("Module", 0, ""), Node("FunctionDef", 1, "load")>>],
      [source |-> "def def", valid |-> FALSE, tree |-> <<>>],
      [source |-> "class Box :\n @staticmethod\n def make ( ) : pass\n"
                  \o " @some.classmethod\n def build ( cls ) : pass\n"
                  \o " @my_staticmethod\n def size ( self ) : pass",
       valid |-> TRUE,
       tree |-> <<Node("Module", 0, ""), Node("ClassDef", 1, "Box"),
                  [Node("FunctionDef", 2, "make") EXCEPT !.decorators = <<"staticmethod">>],
                  [Node("FunctionDef", 2, "build") EXCEPT
                      !.decorators = <<"some.classmethod">>],
                  [Node("FunctionDef", 2, "size") EXCEPT
                      !.decorators = <<"my_staticmethod">>]>>],
      [source |-> "class Reg :\n @abc.staticmethod ( )\n def make ( ) : pass\n"
                  \o " @classmethod ( )\n def build ( cls ) : pass\n"
                  \o " def plain ( self ) : pass",
       valid |-> TRUE,
       tree |-> <<Node("Module", 0, ""), Node("ClassDef", 1, "Reg"),
                  [Node("FunctionDef", 2, "make") EXCEPT
                      !.decorators = <<"abc.staticmethod()">>],
                  [Node("FunctionDef", 2, "build") EXCEPT !.decorators = <<"classmethod()">>],
                  Node("FunctionDef", 2, "plain")>>],
      [source |-> "class Net :\n @staticmethod\n async def fetch ( ) : pass\n"
                  \o " @classmethod\n async def open ( cls ) : pass",
       valid |-> TRUE,
       tree |-> <<Node("Module", 0, ""), Node("ClassDef", 1, "Net"),
                  [Node("AsyncFunctionDef", 2, "fetch") EXCEPT
                      !.decorators = <<"staticmethod">>],
                  [Node("AsyncFunctionDef", 2, "open") EXCEPT
                      !.decorators = <<"classmethod">>]>>],
      [source |-> "@registry.make\nclass Pool :\n @staticmethod\n def make ( ) : pass",
       valid |-> TRUE,
       tree |-> <<Node("Module", 0, ""),
                  [Node("ClassDef", 1, "Pool") EXCEPT !.decorators = <<"registry.make">>],
                  [Node("FunctionDef", 2, "make") EXCEPT
                      !.decorators = <<"staticmethod">>]>>] }

\* tokenize.generate_tokens, reduced to the words of the text and the end marker
RECURSIVE Tokenize(_)
Tokenize(s) ==
    LET blanks == {i \in 1..Len(s) : SubSeq(s, i, i) \in {" ", "\n"}}
        b == IF blanks = {} THEN Len(s) + 1
             ELSE CHOOSE i \in blanks : \A j \in blanks : i <= j
    IN  IF Len(s) = 0 THEN << "ENDMARKER" >>
        ELSE (IF b = 1 THEN <<>> ELSE << SubSeq(s, 1, b - 1) >>)
             \o Tokenize(SubSeq(s, b + 1, Len(s)))

\* The last position of the one-character text c in s, 0 if there is none
LastIndexOf(s, c) ==
    LET at == {i \in 1..Len(s) : SubSeq(s, i, i) = c}
    IN  IF at = {} THEN 0 ELSE CHOOSE i \in at : \A j \in at : j <= i

\* CodeParser._has_decorator on the decorator expressions of a node, each
\* given as its source text: a name, an attribute expression, or a call whose
\* arguments hold no parenthesis
HasDecorator(node, decorator_name) ==
    \E k \in 1..Len(node.decorators) :
        LET d == node.decorators[k]
            is_call == Len(d) > 0 /\ SubSeq(d, Len(d), Len(d)) = ")"
            func == IF is_call THEN SubSeq(d, 1, LastIndexOf(d, "(") - 1) ELSE d
            func_is_call == Len(func) > 0 /\ SubSeq(func, Len(func), Len(func)) = ")"
            \* Name.id, or Attribute.attr
            terminal == SubSeq(func, LastIndexOf(func, ".") + 1, Len(func))
        IN  ~func_is_call /\ terminal = decorator_name

\* CodeParser.get_class_methods on the class at node n of tree t. The test
\* isinstance(d, ast.StaticMethod) names an attribute the ast module does not
\* have: it is evaluated, and raises AttributeError, as soon as a decorator of
\* the class is an attribute expression whose attr is the name of a method.
GetClassMethods(t, n) ==
    LET items == SelectSeqBy(Children(t, n), {i \in 1..Len(t) : IsFunctionNode(t, i)})
        class_attrs == {SubSeq(d, LastIndexOf(d, ".") + 1, Len(d)) :
                           d \in {x \in Range(t[n].decorators) :
                                     /\ LastIndexOf(x, ".") > 0
                                     /\ SubSeq(x, Len(x), Len(x)) # ")"}}
    IN  IF \E k \in 1..Len(items) :
              t[items[k]].kind = "FunctionDef" /\ t[items[k]].name \in class_attrs
        THEN [raised |-> TRUE, value |-> <<>>]
        ELSE [raised |-> FALSE,
              value |-> [k \in 1..Len(items) |->
                  LET item == t[items[k]]
                  IN  [name |-> item.name,
                       is_static |-> /\ item.kind = "FunctionDef"
                                     /\ HasDecorator(item, "staticmethod"),
                       is_classmethod |-> HasDecorator(item, "classmethod")]]]

InitParser ==
    /\ ParIdle
    /\ PipeIdle
    /\ AstIdle
    /\ DetIdle
    /\ GenIdle

\* CodeParser.parse
CallParse ==
    /\ \E text \in DrawnTexts :
          /\ parser' = [parser EXCEPT !.source_code = text.source,
                                      !.tree = IF text.valid THEN text.tree ELSE @]
          /\ parOut' = [call |-> "parse", raised |-> ~text.valid,
                        value |-> IF text.valid THEN text.tree ELSE <<>>]
    /\ UNCHANGED <<pipeVars, astVars, detVars, genVars>>

\* CodeParser.get_tokens
CallGetTokens ==
    /\ IF parser.source_code = ""
       THEN /\ parOut' = [call |-> "get_tokens", raised |-> FALSE, value |-> <<>>]
            /\ UNCHANGED parser
       ELSE /\ parser' = [parser EXCEPT
                             !.tokens = IF @ = <<>> THEN Tokenize(parser.source_code) ELSE @]
            /\ parOut' = [call |-> "get_tokens", raised |-> FALSE, value |-> parser'.tokens]
    /\ UNCHANGED <<pipeVars, astVars, detVars, genVars>>

\* CodeParser.get_function_names
CallGetFunctionNames ==
    /\ parOut' = [call |-> "get_function_names", raised |-> FALSE,
                  value |-> IF parser.tree = <<>> THEN <<>>
                            ELSE LET w == Walk(parser.tree, 1)
                                     fs == SelectSeqBy(w, {i \in 1..Len(parser.tree) :
                                                              IsFunctionNode(parser.tree, i)})
                                 IN  [k \in 1..Len(fs) |-> parser.tree[fs[k]].name]]
    /\ UNCHANGED <<parser, pipeVars, astVars, detVars, genVars>>

\* CodeParser.get_class_names
CallGetClassNames ==
    /\ parOut' = [call |-> "get_class_names", raised |-> FALSE,
                  value |-> IF parser.tree = <<>> THEN <<>>
                            ELSE LET w == Walk(parser.tree, 1)
                                     cs == SelectSeqBy(w, {i \in 1..Len(parser.tree) :
                                                              parser.tree[i].kind = "ClassDef"})
                                 IN  [k \in 1..Len(cs) |-> parser.tree[cs[k]].name]]
    /\ UNCHANGED <<parser, pipeVars, astVars, detVars, genVars>>

\* CodeParser.get_class_methods on a class of the stored tree
CallGetClassMethods ==
    /\ \E n \in 1..Len(parser.tree) :
          /\ parser.tree[n].kind = "ClassDef"
          /\ LET r == GetClassMethods(parser.tree, n)
             IN  parOut' = [call |-> "get_class_methods", raised |-> r.raised,
                            value |-> r.value]
    /\ UNCHANGED <<parser, pipeVars, astVars, detVars, genVars>>

NextParser ==
    \/ CallParse
    \/ CallGetTokens
    \/ CallGetFunctionNames
    \/ CallGetClassNames
    \/ CallGetClassMethods

SpecParser == InitParser /\ [][NextParser]_vars

-----------------------------------------------------------------------------
(* Properties *)

NoDuplicates(s) == \A i, j \in 1..Len(s) : s[i] = s[j] => i = j

\* The index at which x first occurs in s
FirstIndex(s, x) == CHOOSE i \in 1..Len(s) : s[i] = x /\ \A j \in 1..(i - 1) : s[j] # x

\* The indices, in order, of the first k files whose status is st
FilesBefore(k, st) ==
    SelectSeqBy([i \in 1..k |-> i], {i \in 1..k : files[i].status = st})

\* C1: in analyze_code a file whose text fails to parse is skipped with a
\* diagnostic and does not abort the batch: once the loop has passed k files,
\* the results hold exactly the records of the files among them that parse, in
\* order, one diagnostic names each file that does not, and the analysis always
\* ends having visited every file of the batch (it returns normally).
C1_ParseFailureIsolatedPerFile ==
    pc # "idle" =>
        LET ok == FilesBefore(idx - 1, "ok")
            bad == FilesBefore(idx - 1, "malformed")
        IN  /\ idx \in 1..(Len(files) + 1)
            /\ analysis.files = [j \in 1..Len(ok) |-> PathOf(ok[j])]
            /\ analysis.functions =
                  Flatten([j \in 1..Len(ok) |-> ExtractFunctions(files[ok[j]].tree)])
            /\ analysis.classes =
                  Flatten([j \in 1..Len(ok) |-> ExtractClasses(files[ok[j]].tree)])
            /\ analysis.imports =
                  Flatten([j \in 1..Len(ok) |-> ExtractImports(files[ok[j]].tree)])
            /\ diagnostics = [j \in 1..Len(bad) |-> PathOf(bad[j])]
            /\ pc # "analyze" => idx = Len(files) + 1

\* A batch whose first file is malformed was analysed: the second file
\* contributed its records and one diagnostic was reported.
C1_Witness ==
    /\ pc = "mkdir"
    /\ Len(files) = 2
    /\ files[1].status = "malformed"
    /\ files[2].status = "ok"
    /\ analysis.files = <<PathOf(2)>>
    /\ analysis.functions # <<>>
    /\ diagnostics = <<PathOf(1)>>

\* out holds the entries of collected, each once, in the order of their first
\* occurrence in collected.
InFirstSeenOrder(out, collected) ==
    /\ NoDuplicates(out)
    /\ Range(out) = Range(collected)
    /\ \A i, j \in 1..Len(out) :
          i < j => FirstIndex(collected, out[i]) < FirstIndex(collected, out[j])

\* C2: the list returned by EdgeCaseDetector.detect and the list returned by
\* FailureModeDetector.detect hold no two identical entries, and their entries
\* appear in the order of their first occurrence in the per-function findings
\* followed by the per-class findings.
C2_DetectDeduplicatesInFirstSeenOrder ==
    /\ detOut.stage \in {"edge_cases", "failure_modes"} =>
          InFirstSeenOrder(detOut.edge_cases,
                Flatten([k \in 1..Len(detIn.functions) |->
                            DetectFunctionEdgeCases(detIn.functions[k])])
             \o Flatten([k \in 1..Len(detIn.classes) |->
                            DetectClassEdgeCases(detIn.classes[k])]))
    /\ detOut.stage = "failure_modes" =>
          InFirstSeenOrder(detOut.failure_modes,
                Flatten([k \in 1..Len(detIn.functions) |->
                            DetectFunctionFailureModes(detIn.functions[k])])
             \o Flatten([k \in 1..Len(detIn.classes) |->
                            DetectClassFailureModes(detIn.classes[k])]))

\* Both classifiers returned, and each had collected a finding more than once.
C2_Witness ==
    /\ detOut.stage = "failure_modes"
    /\ Len(detOut.edge_cases) < Len(EdgeCasesCollected(detIn.functions, detIn.classes))
    /\ Len(detOut.failure_modes)
          < Len(FailureModesCollected(detIn.functions, detIn.classes))
    /\ detOut.edge_cases # <<>>
    /\ detOut.failure_modes # <<>>

\* C3: after analyze_code the edge_cases list and the failure_modes list of
\* the results hold no finding twice, even when two files yield the same
\* finding.
C3_FindingsUniqueAcrossRun ==
    pc \notin {"idle", "analyze"} =>
        /\ NoDuplicates(analysis.edge_cases)
        /\ NoDuplicates(analysis.failure_modes)

\* C4: two runs on identical source text produce identical records, findings
\* and generated file text, line for line.
C4_RunsProduceIdenticalOutput ==
    (second /\ pc = "done") =>
        /\ analysis = prev.analysis
        /\ generated_tests = prev.generated_tests
        /\ \A p \in DOMAIN outdir :
              p \in DOMAIN prev.outdir /\ outdir[p] = prev.outdir[p]

GeneratorStages == {"unit", "integration", "property"}

\* C5: a failure raised by one generator does not end the run: no run stops
\* at the generator that raised, without its report.
C5_GeneratorFailureContained ==
    ~ (/\ pc = "aborted"
       /\ log # <<>>
       /\ log[Len(log)] \in GeneratorStages
       /\ ~report.made)

\* C6: every function record the extractor produces (top-level function,
\* nested function, method, async function) has complexity >= 1.
C6_ComplexityAtLeastOne ==
    /\ \A k \in 1..Len(astOut.functions) : astOut.functions[k].complexity >= 1
    /\ \A c \in 1..Len(astOut.classes) :
          \A m \in 1..Len(astOut.classes[c].methods) :
              astOut.classes[c].methods[m].complexity >= 1

\* The extractor returned the records of an async method that holds a nested
\* function, both without a decision point.
C6_Witness ==
    /\ astOut.stage = "classes"
    /\ \E c \in 1..Len(astOut.classes) : \E m \in 1..Len(astOut.classes[c].methods) :
          /\ astOut.classes[c].methods[m].is_async
          /\ astOut.classes[c].methods[m].complexity = 1
    /\ \E k \in 1..Len(astOut.functions) :
          /\ astTree[astTree[astOut.functions[k].line_number].parent].kind
                \in {"FunctionDef", "AsyncFunctionDef"}
          /\ astOut.functions[k].complexity = 1

\* Node n is the node root or one of its descendants.
RECURSIVE IsWithin(_, _, _)
IsWithin(t, n, root) ==
    \/ n = root
    \/ t[n].parent # 0 /\ IsWithin(t, t[n].parent, root)

Subtree(t, root) == {n \in 1..Len(t) : IsWithin(t, n, root)}

\* The sum of nvalues - 1 over the nodes S of t
RECURSIVE ExtraOperands(_, _)
ExtraOperands(t, S) ==
    IF S = {} THEN 0
    ELSE LET n == CHOOSE x \in S : TRUE
         IN  (t[n].nvalues - 1) + ExtraOperands(t, S \ {n})

\* 1, plus 1 for every if / while / for / handler of the subtree, plus v - 1
\* for every boolean operation of v operands of the subtree
PathCount(t, root) ==
    1 + Cardinality({n \in Subtree(t, root) :
                        t[n].kind \in {"If", "While", "For", "ExceptHandler"}})
      + ExtraOperands(t, {n \in Subtree(t, root) : t[n].kind = "BoolOp"})

\* C7: the complexity of a function is 1, plus 1 for every if / while / for /
\* exception handler within its subtree, plus v - 1 for every boolean operation
\* of v operands within its subtree, whatever the depth at which the function
\* itself is nested.
C7_ComplexityCountsSubtree ==
    /\ \A k \in 1..Len(astOut.functions) :
          astOut.functions[k].complexity
              = PathCount(astTree, astOut.functions[k].line_number)
    /\ \A c \in 1..Len(astOut.classes) :
          \A m \in 1..Len(astOut.classes[c].methods) :
              astOut.classes[c].methods[m].complexity
                  = PathCount(astTree, astOut.classes[c].methods[m].line_number)

\* The extractor returned the record of a function nested in another function
\* and holding a boolean operation of three operands.
C7_Witness ==
    /\ astOut.stage = "classes"
    /\ \E k \in 1..Len(astOut.functions) :
          LET n == astOut.functions[k].line_number
          IN  /\ astTree[astTree[n].parent].kind \in {"FunctionDef", "AsyncFunctionDef"}
              /\ \E b \in 1..Len(astTree) :
                    /\ astTree[b].kind = "BoolOp"
                    /\ astTree[b].parent = n
                    /\ astTree[b].nvalues = 3
              /\ astOut.functions[k].complexity = 3

\* The files, path and complete text, that the generators build from the
\* analysis results
CompleteFiles ==
    Range(UnitFiles(analysis))
    \cup UNION {Range(IntegrationFiles(analysis, order)) :
                   order \in SetIterationOrders(IdentifyExternalServices(analysis.imports))}
    \cup Range(PropertyFiles(analysis))

\* C8: no generated file is ever partially written: in every state, also
\* after a failure, each file of the output directory holds the complete text
\* built for it.
C8_NoPartiallyWrittenFile ==
    \A p \in DOMAIN outdir : <<p, outdir[p]>> \in CompleteFiles

\* The generated files of a directory: path and text
FileSet(dir) == {<<p, dir[p]>> : p \in DOMAIN dir}

\* C9: running analyze_code then generate_tests twice on unchanged source,
\* the output directory emptied in between, yields the same set of generated
\* files both times.
C9_SecondRunYieldsSameFiles ==
    (second /\ pc \in {"run_tests", "report", "done"}) =>
        FileSet(outdir) = FileSet(prev.outdir)

StageRank(s) ==
    CASE s = "analyze" -> 1
      [] s = "unit" -> 2
      [] s = "integration" -> 3
      [] s = "property" -> 4
      [] s = "run_tests" -> 5
      [] s = "report" -> 6

\* C10: run executes its stages in the order analysis -> generation ->
\* optional external runner -> report: no generator starts before every file
\* was analysed, the runner is invoked only when run_tests is true and only
\* after generation, and the report is produced last in every run that
\* completes.
C10_StagesInFixedOrder ==
    /\ \A i, j \in 1..Len(log) :
          i < j => \/ StageRank(log[i]) < StageRank(log[j])
                   \/ log[i] = "analyze" /\ log[j] = "analyze"
    /\ (\E i \in 1..Len(log) : log[i] \in GeneratorStages) =>
          /\ Cardinality({i \in 1..Len(log) : log[i] = "analyze"}) = Len(files)
          /\ idx = Len(files) + 1
    /\ (\E i \in 1..Len(log) : log[i] = "run_tests") =>
          /\ run_tests
          /\ \E i \in 1..Len(log) : log[i] \in GeneratorStages
          /\ generated_tests = generated
    /\ pc = "done" =>
          /\ log # <<>>
          /\ log[Len(log)] = "report"
          /\ report.made
    /\ (\E i \in 1..Len(log) : log[i] = "report") => pc = "done"

\* A run of every generator with the runner requested completed.
C10_Witness ==
    /\ pc = "done"
    /\ run_tests
    /\ log = <<"analyze", "analyze", "unit", "integration", "property", "run_tests",
               "report">>
    /\ test_results.ran
    /\ report.made

\* The name rules of the edge-case table: keywords and the findings they bring
EdgeNameRules ==
    { [keywords |-> {"divide", "div", "/"},
       findings |-> {"division by zero", "integer overflow in division"}],
      [keywords |-> {"sort", "order", "unique"},
       findings |-> {"empty collection", "single element collection",
                     "collection with duplicates"}],
      [keywords |-> {"find", "search", "index", "get"},
       findings |-> {"item not found", "empty collection"}],
      [keywords |-> {"parse", "convert", "encode", "decode"},
       findings |-> {"empty string input", "invalid input format", "very long input"}],
      [keywords |-> {"read", "load", "fetch", "get"},
       findings |-> {"empty file/data", "file not found", "permission denied"}],
      [keywords |-> {"write", "save", "store"},
       findings |-> {"write to read-only location", "disk full"}] }

RuleMatches(rule, name) == \E kw \in rule.keywords : Contains(Lower(name), kw)

\* C11: the edge-case name rules are applied independently and additively:
\* for every function and each of the six rules, the detector's output holds
\* all of the rule's findings, prefixed by "<name>: ", if and only if one of
\* the rule's keywords is a substring of the lowercased function name.
C11_NameRulesIndependentAndAdditive ==
    detOut.stage \in {"edge_cases", "failure_modes"} =>
        \A k \in 1..Len(detIn.functions) : \A rule \in EdgeNameRules :
            LET name == detIn.functions[k].name
            IN  (\A m \in rule.findings :
                    \E i \in 1..Len(detOut.edge_cases) :
                        detOut.edge_cases[i] = name \o ": " \o m)
                <=> RuleMatches(rule, name)

\* The detector returned for a function whose name matches two rules once
\* lowercased, and for a function whose name matches no rule.
C11_Witness ==
    /\ detOut.stage = "edge_cases"
    /\ \E k \in 1..Len(detIn.functions) :
          /\ detIn.functions[k].name = "Save_Order"
          /\ Cardinality({r \in EdgeNameRules : RuleMatches(r, "Save_Order")}) = 2
          /\ \E i \in 1..Len(detOut.edge_cases) :
                detOut.edge_cases[i] = "Save_Order: disk full"
          /\ \E i \in 1..Len(detOut.edge_cases) :
                detOut.edge_cases[i] = "Save_Order: single element collection"
    /\ \E k \in 1..Len(detIn.functions) :
          \A r \in EdgeNameRules : ~RuleMatches(r, detIn.functions[k].name)

\* The number of lines of a text that are equal to l
CountLines(lines, l) == Cardinality({i \in 1..Len(lines) : lines[i] = l})

HasLine(lines, l) == \E i \in 1..Len(lines) : lines[i] = l

EndsWith(s, suffix) ==
    Len(s) >= Len(suffix) /\ SubSeq(s, Len(s) - Len(suffix) + 1, Len(s)) = suffix

\* The text of the file a generator built under the given name, <<>> if none
FileText(fs, path) ==
    IF \E k \in 1..Len(fs) : fs[k][1] = path
    THEN fs[CHOOSE k \in 1..Len(fs) : fs[k][1] = path][2]
    ELSE <<>>

\* Public: the name does not start with a single leading underscore
IsPublicName(name) ==
    \/ Len(name) = 0
    \/ SubSeq(name, 1, 1) # "_"
    \/ Len(name) >= 2 /\ SubSeq(name, 1, 2) = "__"

\* The number of functions of the drawn list that bear the name
Homonyms(functions, name) ==
    Cardinality({k \in 1..Len(functions) : functions[k].name = name})

\* The type -> literal table as the specification states it
StatedLiteral(annotation) ==
    CASE annotation = "int" -> "1"
      [] annotation = "float" -> "1.0"
      [] annotation = "str" -> "\"test\""
      [] annotation = "bool" -> "True"
      [] annotation = "list" -> "[]"
      [] annotation = "dict" -> "{}"
      [] annotation = "set" -> "set()"
      [] annotation = "tuple" -> "()"
      [] annotation = "bytes" -> "b\"\""
      [] OTHER -> "None"

\* The table with the entries the statement leaves out: the generic
\* spellings List[...] and Dict[...], the capitalised names, bytearray and
\* MemoryView
FullLiteral(annotation) ==
    IF Contains(annotation, "Optional[") THEN "None"
    ELSE IF Contains(annotation, "List[") THEN "[]"
    ELSE IF Contains(annotation, "Dict[") THEN "{}"
    ELSE CASE annotation = "List" -> "[]"
           [] annotation = "Dict" -> "{}"
           [] annotation = "Set" -> "set()"
           [] annotation = "Tuple" -> "()"
           [] annotation = "bytearray" -> "bytearray()"
           [] annotation = "MemoryView" -> "memoryview(b\"\")"
           [] OTHER -> StatedLiteral(annotation)

RECURSIVE CommaJoined(_)
CommaJoined(parts) ==
    IF Len(parts) = 0 THEN ""
    ELSE IF Len(parts) = 1 THEN parts[1]
    ELSE parts[1] \o ", " \o CommaJoined(Tail(parts))

\* The unit generator emits the basic test of every public function, and of
\* no other, calling it with the literals that the table literal assigns to
\* the annotations of its arguments, in order.
BasicTestsUse(literal(_)) ==
    genOut.stage # "start" =>
        LET text == FileText(genOut.unit, "test_functions.py")
        IN  \A k \in 1..Len(genIn.functions) :
                LET f == genIn.functions[k]
                    call == "    result = " \o f.name \o "("
                            \o CommaJoined([j \in 1..Len(f.args) |->
                                               literal(f.args[j].annotation)])
                            \o ")"
                IN  IF IsPublicName(f.name)
                    THEN /\ CountLines(text, "def test_" \o f.name \o "_basic():")
                               = Homonyms(genIn.functions, f.name)
                         /\ HasLine(text, call)
                    ELSE /\ ~HasLine(text, "def test_" \o f.name \o "_basic():")
                         /\ ~HasLine(text, call)

\* C12, as stated: the unit generator emits test_<name>_basic if and only
\* if the function is public, and the call passes, in argument order, the
\* literal of the table int->1, float->1.0, str->"test", bool->True, list->[],
\* dict->{}, set->set(), tuple->(), bytes->b"", Optional[...]->None, unknown or
\* missing->None.
C12_BasicTestUsesStatedLiterals == BasicTestsUse(StatedLiteral)

\* C12, amended: the unit generator emits test_<name>_basic if and only if
\* the function is public, and the call passes, in argument order, None for an
\* annotation containing Optional[, [] for one containing List[, {} for one
\* containing Dict[, and otherwise the literal of the stated table extended by
\* List->[], Dict->{}, Set->set(), Tuple->(), bytearray->bytearray() and
\* MemoryView->memoryview(b"").
C12_BasicTestUsesFullLiterals == BasicTestsUse(FullLiteral)

\* The unit generator built the basic test of a dunder-named function whose
\* argument is annotated List[int].
C12_Witness ==
    /\ genOut.stage = "unit"
    /\ Len(genIn.functions) = 1
    /\ genIn.functions[1].name = "__call__"
    /\ Len(genIn.functions[1].args) = 1
    /\ genIn.functions[1].args[1].annotation = "List[int]"
    /\ HasLine(FileText(genOut.unit, "test_functions.py"), "def test___call___basic():")
    /\ HasLine(FileText(genOut.unit, "test_functions.py"), "    result = __call__([])")

\* The annotations that name a collection or string type
CollectionOrString == {"list", "List", "str", "dict", "Dict", "set", "Set"}

EmptyLiteral(annotation) ==
    CASE annotation \in {"list", "List"} -> "[]"
      [] annotation = "str" -> "\"\""
      [] annotation \in {"dict", "Dict"} -> "{}"
      [] annotation \in {"set", "Set"} -> "set()"

\* The call of f with argument i replaced by the literal v and every other
\* argument at its default literal
CallWith(f, i, v) ==
    "    # result = " \o f.name \o "("
    \o CommaJoined([j \in 1..Len(f.args) |->
                       IF j = i THEN v ELSE FullLiteral(f.args[j].annotation)])
    \o ")"

\* The line that follows the only line of the text equal to l
LineAfterNext(text, l) == text[(CHOOSE i \in 1..Len(text) : text[i] = l) + 2]

IsStaticOrClassMethod(method) ==
    \E d \in 1..Len(method.decorators) :
        method.decorators[d] \in {"staticmethod", "classmethod"}

HasLineStarting(lines, prefix) ==
    \E i \in 1..Len(lines) :
        Len(lines[i]) >= Len(prefix) /\ SubSeq(lines[i], 1, Len(prefix)) = prefix

\* C14: for every public class of the analysis the unit generator emits one
\* init test and one test per public method other than the constructor, and
\* the call of a method test goes through the class name when the method is a
\* static method or class method, and through a placeholder instance
\* otherwise.
C14_MethodCallsRoutedByKind ==
    (pc # "aborted" /\ "test_classes.py" \in DOMAIN outdir) =>
        LET text == outdir["test_classes.py"]
        IN  \A c \in 1..Len(analysis.classes) :
                LET cls == analysis.classes[c]
                IN  SubSeq(cls.name, 1, 1) # "_" =>
                      /\ HasLine(text, "def test_" \o cls.name \o "_init():")
                      /\ ~HasLine(text, "def test_" \o cls.name \o "___init__():")
                      /\ \A k \in 1..Len(cls.methods) :
                            LET m == cls.methods[k]
                                through_type == "    # result = " \o cls.name \o "."
                                                \o m.name \o "("
                                through_instance == "    # result = instance."
                                                    \o m.name \o "("
                            IN  (IsPublicName(m.name) /\ m.name # "__init__") =>
                                  /\ HasLine(text, "def test_" \o cls.name \o "_"
                                                   \o m.name \o "():")
                                  /\ IF IsStaticOrClassMethod(m)
                                     THEN HasLineStarting(text, through_type)
                                     ELSE HasLineStarting(text, through_instance)

\* The positions of the public classes of the drawn class list
PublicClassPositions ==
    {i \in 1..Len(genIn.classes) : SubSeq(genIn.classes[i].name, 1, 1) # "_"}

\* The ordered pairs of distinct positions of public classes named a and b
InteractionPairs(a, b) ==
    {<<i, j>> \in PublicClassPositions \X PublicClassPositions :
        i # j /\ genIn.classes[i].name = a /\ genIn.classes[j].name = b}

\* C15: for every list of classes the integration generator emits, for every
\* unordered pair of distinct public classes A and B of the list, exactly the
\* two interaction tests test_A_uses_B and test_B_uses_A, and no interaction
\* test that involves a private class or pairs a class with itself; for the
\* list Producer, Consumer it emits exactly two.
C15_TwoInteractionTestsPerPublicPair ==
    genOut.stage \in {"integration", "property"} =>
        LET text == FileText(genOut.integration, "test_integration_classes.py")
            names == {genIn.classes[i].name : i \in 1..Len(genIn.classes)}
            tests == {i \in 1..Len(text) :
                         Len(text[i]) >= 9 /\ SubSeq(text[i], 1, 9) = "def test_"}
        IN  /\ \A a \in names : \A b \in names :
                  CountLines(text, "def test_" \o a \o "_uses_" \o b \o "():")
                     = Cardinality(InteractionPairs(a, b))
            /\ Cardinality(tests)
                  = Cardinality({<<i, j>> \in PublicClassPositions \X PublicClassPositions :
                                    i # j})

\* The integration generator built the tests of Producer, _Hidden, Consumer:
\* exactly two interaction tests, none naming _Hidden.
C15_Witness ==
    /\ genOut.stage = "integration"
    /\ Len(genIn.classes) = 3
    /\ genIn.classes[1].name = "Producer"
    /\ genIn.classes[2].name = "_Hidden"
    /\ genIn.classes[3].name = "Consumer"
    /\ LET text == FileText(genOut.integration, "test_integration_classes.py")
       IN  /\ HasLine(text, "def test_Producer_uses_Consumer():")
           /\ HasLine(text, "def test_Consumer_uses_Producer():")
           /\ Cardinality({i \in 1..Len(text) :
                              Len(text[i]) >= 9 /\ SubSeq(text[i], 1, 9) = "def test_"}) = 2

\* Some drawn function has a lowercased name containing a or b
NameGroupNonEmpty(a, b) ==
    \E k \in 1..Len(genIn.functions) :
        \/ Contains(Lower(genIn.functions[k].name), a)
        \/ Contains(Lower(genIn.functions[k].name), b)

\* The number of lines equal to l over all files the integration generator built
IntegrationLines(l) ==
    Cardinality(UNION {{<<k, i>> : i \in {j \in 1..Len(genOut.integration[k][2]) :
                                              genOut.integration[k][2][j] = l}} :
                          k \in 1..Len(genOut.integration)})

\* The workflow and the data-flow test are emitted exactly when their name
\* groups are non-empty.
WorkflowTestsFollowGroups ==
    /\ IntegrationLines("def test_create_process_validate_workflow():")
          = (IF /\ NameGroupNonEmpty("create", "init")
                /\ NameGroupNonEmpty("process", "transform")
                /\ NameGroupNonEmpty("validate", "check")
             THEN 1 ELSE 0)
    /\ IntegrationLines("def test_data_flow_between_functions():")
          = (IF /\ NameGroupNonEmpty("get", "retrieve")
                /\ NameGroupNonEmpty("set", "update")
             THEN 1 ELSE 0)

\* C16, as stated: for every analysis result the integration generator emits
\* the workflow test exactly when the create/init, process/transform and
\* validate/check groups are all non-empty, the data-flow test exactly when
\* the get/retrieve and set/update groups are both non-empty, and always one
\* error-propagation test.
C16_AlwaysOneErrorPropagationTest ==
    genOut.stage \in {"integration", "property"} =>
        /\ WorkflowTestsFollowGroups
        /\ IntegrationLines("def test_error_propagation():") = 1

\* C16, amended: the workflow test and the data-flow test are emitted
\* exactly when their name groups are non-empty, and exactly one
\* error-propagation test is emitted when the analysis result holds at least
\* one function; an analysis result without functions gets none of the three.
C16_ErrorPropagationTestWhenFunctions ==
    genOut.stage \in {"integration", "property"} =>
        /\ WorkflowTestsFollowGroups
        /\ IntegrationLines("def test_error_propagation():")
              = (IF genIn.functions # <<>> THEN 1 ELSE 0)

\* The integration generator built the tests of get_user, update_user and
\* transform: the data-flow test and the error-propagation test, no workflow
\* test.
C16_Witness ==
    /\ genOut.stage = "integration"
    /\ Len(genIn.functions) = 3
    /\ {genIn.functions[k].name : k \in 1..3} = {"get_user", "update_user", "transform"}
    /\ IntegrationLines("def test_data_flow_between_functions():") = 1
    /\ IntegrationLines("def test_error_propagation():") = 1
    /\ IntegrationLines("def test_create_process_validate_workflow():") = 0

\* The well-known services that some drawn import matches: the fragments
\* contained in the lowercased module name of an import
MatchedServices ==
    {s \in KnownServices :
        \E k \in 1..Len(genIn.imports) : Contains(Lower(genIn.imports[k].module), s)}

\* C17: for every import list the integration generator emits, for each
\* well-known service matched by some import's module name, exactly one
\* test_<service>_integration and exactly one test_<service>_error_handling,
\* <service> being the matched well-known service; imports that match no
\* fragment yield no service test and several imports of one service yield
\* one pair.
C17_OneTestPairPerMatchedService ==
    genOut.stage \in {"integration", "property"} =>
        LET text == FileText(genOut.integration, "test_integration_external.py")
        IN  /\ \A s \in MatchedServices :
                  /\ CountLines(text, "def test_" \o s \o "_integration():") = 1
                  /\ CountLines(text, "def test_" \o s \o "_error_handling():") = 1
            /\ Cardinality({i \in 1..Len(text) : EndsWith(text[i], "_integration():")})
                  = Cardinality(MatchedServices)
            /\ Cardinality({i \in 1..Len(text) : EndsWith(text[i], "_error_handling():")})
                  = Cardinality(MatchedServices)

\* T of Optional[T]
OptionalMember(annotation) == SubSeq(annotation, 10, Len(annotation) - 1)

\* A of Union[A, ...]
FirstUnionMember(annotation) ==
    LET inner == SubSeq(annotation, 7, Len(annotation) - 1)
        commas == {i \in 1..Len(inner) : SubSeq(inner, i, i) = ","}
    IN  IF commas = {} THEN inner
        ELSE SubSeq(inner, 1, (CHOOSE i \in commas : \A j \in commas : i <= j) - 1)

\* The strategy the statement assigns to an Optional or Union annotation
StatedStrategy(annotation) ==
    IF StartsWith(annotation, "Optional[")
    THEN StrategyMapping(OptionalMember(annotation))
    ELSE "st.one_of(" \o StrategyMapping(FirstUnionMember(annotation)) \o ", st.none())"

\* C18: in the randomized test the property-based generator builds for a
\* public function, an argument annotated Optional[T] gets exactly the
\* strategy the table assigns to T, and an argument annotated Union[A, ...]
\* gets a two-way choice between the strategy of its first member A and the
\* null strategy.
C18_OptionalStripsUnionTakesFirstMember ==
    genOut.stage = "property" =>
        LET text == FileText(genOut.property, "test_property_functions.py")
        IN  \A k \in 1..Len(genIn.functions) :
                LET f == genIn.functions[k]
                IN  IsPublicName(f.name) =>
                        \A j \in 1..Len(f.args) :
                            LET a == f.args[j].annotation
                                given == "    " \o f.args[j].name \o "=" \o StatedStrategy(a)
                            IN  (StartsWith(a, "Optional[") \/ StartsWith(a, "Union[")) =>
                                    HasLine(text, given) \/ HasLine(text, given \o ", ")

\* The lowercased name contains encode, encrypt or serialize
SuggestsInverse(name) ==
    \E kw \in {"encode", "encrypt", "serialize"} : Contains(Lower(name), kw)

\* C19: the property-based generator emits tests for public functions only:
\* for each public function exactly one randomized test and exactly one
\* consistency test, plus one inverse-property test if and only if the
\* lowercased function name contains encode, encrypt or serialize; for a
\* private function it emits none of them.
C19_PropertyTestsPerPublicFunction ==
    genOut.stage = "property" =>
        LET text == FileText(genOut.property, "test_property_functions.py")
            public == {k \in 1..Len(genIn.functions) : IsPublicName(genIn.functions[k].name)}
            tests == {i \in 1..Len(text) :
                         Len(text[i]) >= 9 /\ SubSeq(text[i], 1, 9) = "def test_"}
        IN  /\ \A k \in 1..Len(genIn.functions) :
                  LET f == genIn.functions[k]
                      n == IF IsPublicName(f.name) THEN Homonyms(genIn.functions, f.name) ELSE 0
                      names == CommaJoined([j \in 1..Len(f.args) |-> f.args[j].name])
                  IN  /\ CountLines(text, "def test_" \o f.name \o "_propertybased("
                                          \o names \o "):") = n
                      /\ CountLines(text, "def test_" \o f.name \o "_consistency(value):") = n
                      /\ CountLines(text, "def test_" \o f.name \o "_inverse_property(value):")
                            = (IF SuggestsInverse(f.name) THEN n ELSE 0)
            /\ Cardinality(tests)
                  = 2 * Cardinality(public)
                    + Cardinality({k \in public : SuggestsInverse(genIn.functions[k].name)})

\* The property-based generator built the three tests of Encode_Data(x1, x2),
\* a public function whose lowercased name contains encode.
C19_Witness ==
    /\ genOut.stage = "property"
    /\ Len(genIn.functions) = 1
    /\ genIn.functions[1].name = "Encode_Data"
    /\ Len(genIn.functions[1].args) = 2
    /\ LET text == FileText(genOut.property, "test_property_functions.py")
       IN  /\ HasLine(text, "def test_Encode_Data_propertybased(x1, x2):")
           /\ HasLine(text, "def test_Encode_Data_consistency(value):")
           /\ HasLine(text, "def test_Encode_Data_inverse_property(value):")

\* C20: the failure-mode detector emits the recursion finding "recursive
\* function - stack overflow risk" for a function only when the record holds
\* the function's body and the body contains "recursive"; a function whose
\* record has no body, or whose body lacks that substring, gets no recursion
\* finding, whatever its name.
C20_RecursionFindingOnlyFromBody ==
    detOut.stage = "failure_modes" =>
        \A k \in 1..Len(detIn.functions) :
            LET f == detIn.functions[k]
                finding == f.name \o ": recursive function - stack overflow risk"
            IN  (\E i \in 1..Len(detOut.failure_modes) : detOut.failure_modes[i] = finding)
                    => ("body" \in DOMAIN f /\ Contains(f.body, "recursive"))

\* The finding is among the findings, for the function of that name
Reported(findings, name, message) ==
    \E i \in 1..Len(findings) : findings[i] = name \o ": " \o message

\* C21: for every function record with complexity c, the edge-case detector
\* emits the "high complexity" finding if and only if c > 10, and the
\* failure-mode detector emits the "hard to test all paths" finding if and
\* only if c > 15; for 10 < c <= 15 only the edge-case finding is produced.
C21_ComplexityThresholdsAreStrict ==
    detOut.stage = "failure_modes" =>
        \A k \in 1..Len(detIn.functions) :
            LET f == detIn.functions[k]
                c == ToString(f.complexity)
            IN  /\ Reported(detOut.edge_cases, f.name,
                            "high complexity (" \o c \o ") - test thoroughly")
                      <=> f.complexity >= 11
                /\ Reported(detOut.failure_modes, f.name,
                            "high complexity (" \o c \o ") - hard to test all paths")
                      <=> f.complexity >= 16

\* The classifiers ran on a function of complexity 10 and one of complexity
\* 11: only the second got the edge-case finding, neither the failure mode.
C21_Witness ==
    /\ detOut.stage = "failure_modes"
    /\ Len(detIn.functions) = 2
    /\ detIn.functions[1].complexity = 10
    /\ detIn.functions[2].complexity = 11
    /\ detOut.edge_cases = <<"tally: high complexity (11) - test thoroughly">>
    /\ detOut.failure_modes = <<>>

\* The class whose methods the last get_class_methods call listed: every
\* drawn text holds one class
ListedClass == CHOOSE n \in 1..Len(parser.tree) : parser.tree[n].kind = "ClassDef"

\* C22: get_class_methods classifies a method, sync or async, as a static
\* method (class method) whenever one of its decorators has the terminal
\* identifier staticmethod (classmethod), be it a bare name, an attribute
\* expression or a call of either, and classifies no method without such a
\* decorator as static or class method.
C22_DecoratorDecidesMethodKind ==
    parOut.call = "get_class_methods" =>
        LET t == parser.tree
            items == SelectSeqBy(Children(t, ListedClass),
                                 {i \in 1..Len(t) : IsFunctionNode(t, i)})
        IN  /\ ~parOut.raised
            /\ Len(parOut.value) = Len(items)
            /\ \A k \in 1..Len(items) :
                  /\ parOut.value[k].name = t[items[k]].name
                  /\ parOut.value[k].is_static <=> HasDecorator(t[items[k]], "staticmethod")
                  /\ parOut.value[k].is_classmethod
                        <=> HasDecorator(t[items[k]], "classmethod")

\* C26: after any sequence of parse and get_tokens calls on one parser,
\* get_tokens returns the tokens of the text passed to the most recent parse
\* call, which parse stores as source_code (the empty list when that text is
\* empty or nothing was parsed), never the tokens of an earlier text.
C26_TokensOfMostRecentText ==
    parOut.call = "get_tokens" =>
        parOut.value = (IF parser.source_code = "" THEN <<>>
                        ELSE Tokenize(parser.source_code))

\* The tree ast.parse makes of the stored text, <<>> if the text does not parse
TreeOfStoredText ==
    LET text == CHOOSE x \in DrawnTexts : x.source = parser.source_code
    IN  IF text.valid THEN text.tree ELSE <<>>

\* C28: after any sequence of parse calls, successful or failing, the stored
\* tree is the syntax tree of the stored source_code or no tree at all: a
\* failing parse does not leave the new text paired with the tree of an
\* earlier text, so get_function_names and get_class_names report only names
\* of the stored text.
C28_StoredTreeBelongsToStoredText ==
    /\ parser.tree \in {<<>>, TreeOfStoredText}
    /\ parOut.call = "get_function_names" =>
          \A k \in 1..Len(parOut.value) :
              \E i \in 1..Len(TreeOfStoredText) :
                  /\ IsFunctionNode(TreeOfStoredText, i)
                  /\ TreeOfStoredText[i].name = parOut.value[k]
    /\ parOut.call = "get_class_names" =>
          \A k \in 1..Len(parOut.value) :
              \E i \in 1..Len(TreeOfStoredText) :
                  /\ TreeOfStoredText[i].kind = "ClassDef"
                  /\ TreeOfStoredText[i].name = parOut.value[k]

\* The nodes of the subtree of t rooted at n in pre-order: a node, then the
\* subtrees of its children in source order
RECURSIVE PreOrder(_, _)
PreOrder(t, n) ==
    LET c == Children(t, n)
    IN  <<n>> \o Flatten([k \in 1..Len(c) |-> PreOrder(t, c[k])])

\* The names of the nodes of the given kinds, in pre-order
NamesInPreOrder(t, kinds) ==
    LET hits == SelectSeqBy(PreOrder(t, 1), {n \in 1..Len(t) : t[n].kind \in kinds})
    IN  [k \in 1..Len(hits) |-> t[hits[k]].name]

\* C23: extract_functions returns exactly one record for every function
\* definition anywhere in the tree, in the order of a pre-order walk of the
\* tree (a definition nested in an earlier top-level statement precedes a
\* later top-level definition); the same holds for extract_classes.
C23_RecordsInPreOrder ==
    /\ astOut.stage \in {"functions", "classes"} =>
          [k \in 1..Len(astOut.functions) |-> astOut.functions[k].name]
             = NamesInPreOrder(astTree, {"FunctionDef", "AsyncFunctionDef"})
    /\ astOut.stage = "classes" =>
          [k \in 1..Len(astOut.classes) |-> astOut.classes[k].name]
             = NamesInPreOrder(astTree, {"ClassDef"})

\* The generators that have run return no file, the integration generator
\* being held to that only under the given condition
NoFilesGenerated(integration_too) ==
    /\ genOut.stage \in {"unit", "integration", "property"} => genOut.unit = <<>>
    /\ (genOut.stage \in {"integration", "property"} /\ integration_too)
          => genOut.integration = <<>>
    /\ genOut.stage = "property" => genOut.property = <<>>

\* C24, as stated: if the analysis result has zero functions and zero
\* classes, each of the three generators returns an empty file list and
\* writes no file.
C24_NoFilesWithoutFunctionsAndClasses ==
    (genIn.functions = <<>> /\ genIn.classes = <<>>) => NoFilesGenerated(TRUE)

\* C24, amended: if the analysis result has zero functions and zero classes,
\* the unit generator and the property-based generator return an empty file
\* list and write no file, and so does the integration generator if the
\* analysis result has zero imports as well.
C24_NoFilesWithoutInput ==
    (genIn.functions = <<>> /\ genIn.classes = <<>>)
        => NoFilesGenerated(genIn.imports = <<>>)

\* The three generators ran on an analysis result without functions, classes
\* and imports, and returned nothing.
C24_Witness ==
    /\ genIn = [functions |-> <<>>, classes |-> <<>>, imports |-> <<>>]
    /\ genOut = [stage |-> "property", unit |-> <<>>, integration |-> <<>>,
                 property |-> <<>>]

\* C25: if the output directory cannot be created, generate_tests fails
\* with the error of mkdir before any generator runs: the step that fails
\* writes no test file, leaves the generated-tests list of the orchestrator
\* and the local list unchanged, and no generator stage has run or runs.
C25_DirectoryFailureWritesNothing ==
    [][(pc = "mkdir" /\ pc' = "aborted") =>
          /\ outdir' = outdir
          /\ generated_tests' = generated_tests
          /\ generated' = generated
          /\ log' = log
          /\ \A k \in 1..Len(log) : log[k] \notin GeneratorStages]_vars

\* The run was aborted by the failure to create the output directory, after
\* an analysis that found functions: nothing is written.
C25_Witness ==
    /\ pc = "aborted"
    /\ log # <<>>
    /\ \A k \in 1..Len(log) : log[k] = "analyze"
    /\ analysis.functions # <<>>
    /\ outdir = EmptyDir
    /\ generated_tests = <<>>

\* The paths of the files among the first n that are analyzed without error,
\* in iteration order
AnalyzedPaths(n) ==
    SelectSeqBy([i \in 1..n |-> PathOf(i)],
                {PathOf(i) : i \in {j \in 1..n : files[j].status = "ok"}})

\* C27: in analyze_code the iteration of a file whose processing raises
\* leaves the analysis result exactly as it was before that file, and after
\* every step the files list holds exactly the files analyzed without error
\* so far, in iteration order.
C27_FailedFileLeavesAnalysisUnchanged ==
    [][/\ (pc = "analyze" /\ idx <= Len(files) /\ idx' = idx + 1
              /\ files[idx].status # "ok") => analysis' = analysis
       /\ analysis'.files = AnalyzedPaths(idx' - 1)]_vars

\* The loop has passed a file that parses and then one that does not: only
\* the first is listed, the second is reported.
C27_Witness ==
    /\ pc = "analyze"
    /\ idx = 3
    /\ files[1].status = "ok"
    /\ files[2].status = "malformed"
    /\ analysis.files = <<PathOf(1)>>
    /\ analysis.functions # <<>>
    /\ diagnostics = <<PathOf(2)>>

\* The names of the test functions a text defines, one entry per definition
TestNames(text) ==
    LET defs == SelectSeqBy([i \in 1..Len(text) |-> i],
                            {i \in 1..Len(text) : StartsWith(text[i], "def test_")})
    IN  [k \in 1..Len(defs) |->
            LET line == text[defs[k]]
                open == CHOOSE i \in 1..Len(line) :
                            /\ SubSeq(line, i, i) = "("
                            /\ \A j \in 1..(i - 1) : SubSeq(line, j, j) # "("
            IN  SubSeq(line, 5, open - 1)]

\* C29: within each test file the pipeline has written, no two test
\* functions have the same name.
C29_TestNamesUniquePerFile ==
    pc # "aborted" =>
        \A p \in DOMAIN outdir :
            LET names == TestNames(outdir[p])
            IN  \A i \in 1..Len(names) : \A j \in 1..Len(names) :
                    names[i] = names[j] => i = j

\* C30: every result TestRunner.run returns has total equal to
\* passed + failed + skipped + errors, and with no test files every count
\* is zero.
C30_TotalIsSumOfCounts ==
    test_results.ran =>
        /\ test_results.total = test_results.passed + test_results.failed
                                  + test_results.skipped + test_results.errors
        /\ generated_tests = <<>> => test_results = [NoResults EXCEPT !.ran = TRUE]

=============================================================================
